---------------------------- MODULE Spec2Model ----------------------------
(***************************************************************************)
(* Model of TransferAss/TransferASS.py: the compiler from the JSON         *)
(* question list to a QTI 2.1 package and to Moodle quiz XML.              *)
(*                                                                         *)
(* Conventions.                                                            *)
(*  - A Python str is a sequence of one-character strings.                 *)
(*  - A Python dict is the sequence of its (key, value) pairs in insertion *)
(*    order; keys are pairwise distinct, so a key is identified with its   *)
(*    position.  "options" is a sequence of [text, ok].                    *)
(*  - 100.0 / C is a double; "{:.6f}" formats the double correctly         *)
(*    rounded.  For every divisor up to 1200 the result equals the exact   *)
(*    quotient rounded half-to-even at the sixth decimal (verified against *)
(*    CPython), which is what Format6f computes on integers.               *)
(*  - uuid.uuid4() is a generator of fresh tokens: a counter.              *)
(*  - A module global holds "True", "False" or "undefined"; reading an     *)
(*    undefined name is a NameError.                                       *)
(*  - A question is a record with the field keys, the set of keys its dict *)
(*    has; the field of an absent key is never read.                       *)
(***************************************************************************)
EXTENDS Integers, Sequences, FiniteSets, TLC

VARIABLES
    pc,          \* position of the modelled call: "call" before, "done" after
    arg,         \* the arguments of the modelled call
    ret,         \* what the call returned or raised
    uuid_count,  \* number of tokens uuid.uuid4() has handed out
    attempt,     \* outcome variables of a candidate's attempt on a QTI item
    namespace_map, \* ElementTree's registry of namespace prefixes (uri -> prefix)
    globals,     \* the module globals moodle_strip_prefixes, moodle_convert_math
    page,        \* what the Streamlit page shows: messages and download buttons
    files        \* the temporary files that exist

vars == <<pc, arg, ret, uuid_count, attempt, namespace_map, globals, page, files>>

(***************************************************************************)
(* Bounds of the model.                                                    *)
(***************************************************************************)
\* options of a question whose flags are enumerated exhaustively (grading)
MaxGradeOptions == 4
\* correct options of the long questions (all correct first, then wrong)
MaxCorrect == 512
\* wrong options of the long questions
MaxWrong == 1

(***************************************************************************)
(* Module state: the namespace registry of xml.etree.ElementTree, the      *)
(* module globals, the page and the temporary files.                       *)
(***************************************************************************)
NS_QTI == "http://www.imsglobal.org/xsd/imsqti_v2p1"

NS_IMSCP == "http://www.imsglobal.org/xsd/imscp_v1p1"

NS_XSI == "http://www.w3.org/2001/XMLSchema-instance"

Namespaces == {NS_QTI, NS_IMSCP, NS_XSI}

\* the entry of a uri that has no registered prefix
Unregistered == "<unregistered>"

\* ET.register_namespace(prefix, uri): the uri gets the prefix, and every
\* other uri that had this prefix loses it
register_namespace(prefix, uri, m) ==
    [k \in Namespaces |-> IF k = uri THEN prefix
                          ELSE IF m[k] = prefix THEN Unregistered
                          ELSE m[k]]

\* the registry once the module is imported: ET.register_namespace('', NS_QTI)
\* and ET.register_namespace('xsi', NS_XSI)
ImportedNamespaceMap ==
    register_namespace("xsi", NS_XSI,
        register_namespace("", NS_QTI, [k \in Namespaces |-> Unregistered]))

\* ET.tostring(element): the element serialised under the registry m.  The
\* namespace of the tags is met first and the namespace of the
\* xsi:schemaLocation attribute second; an unregistered uri gets the prefix
\* ns<number of namespaces met before>.  An empty prefix is the default
\* namespace: tags are written without prefix.
tostring(uri, element, m) ==
    LET tag_prefix == IF m[uri] = Unregistered THEN "ns0" ELSE m[uri]
        xsi_prefix == IF m[NS_XSI] = Unregistered THEN "ns1" ELSE m[NS_XSI]
    IN  [tag_prefix |-> tag_prefix,
         xmlns |-> {<<tag_prefix, uri>>, <<xsi_prefix, NS_XSI>>},
         schemaLocation_prefix |-> xsi_prefix,
         element |-> element]

\* moodle_strip_prefixes and moodle_convert_math before the page defines them
NoGlobals == [moodle_strip_prefixes |-> "undefined", moodle_convert_math |-> "undefined"]

\* the module namespaces the page can leave behind
ModuleGlobals ==
    [moodle_strip_prefixes : {"undefined", "True", "False"},
     moodle_convert_math : {"undefined", "True", "False"}]

\* use_strip without the fallback to True: an undefined global counts as off
use_strip_NoFallback(g) == g.moodle_strip_prefixes = "True"

\* try: use_strip = moodle_strip_prefixes / except NameError: use_strip = True
use_strip(g) == IF g.moodle_strip_prefixes = "undefined" THEN TRUE
                ELSE g.moodle_strip_prefixes = "True"

\* try: use_convert_math = moodle_convert_math / except NameError: False
use_convert_math(g) == IF g.moodle_convert_math = "undefined" THEN FALSE
                       ELSE g.moodle_convert_math = "True"

\* the page before the run writes to it
NoPage == [messages |-> <<>>, buttons |-> <<>>]

\* q.get(key, "") for a text field
Get(q, key) == IF key \in q.keys
               THEN CASE key = "question" -> q.question
                      [] key = "success"  -> q.success
                      [] key = "error"    -> q.error
               ELSE <<>>

\* q.get("options", {})
GetOptions(q) == IF "options" \in q.keys THEN q.options ELSE <<>>

(***************************************************************************)
(* Strings.                                                                *)
(***************************************************************************)
DigitChars == <<"0", "1", "2", "3", "4", "5", "6", "7", "8", "9">>

DigitChar(d) == DigitChars[d + 1]

IsDigit(c) == \E d \in 0..9 : DigitChars[d + 1] = c

DigitValue(c) == CASE c = "0" -> 0 [] c = "1" -> 1 [] c = "2" -> 2 [] c = "3" -> 3
                   [] c = "4" -> 4 [] c = "5" -> 5 [] c = "6" -> 6 [] c = "7" -> 7
                   [] c = "8" -> 8 [] c = "9" -> 9

\* str(n) for a natural number n
RECURSIVE Digits(_)
Digits(n) == IF n < 10 THEN <<DigitChar(n)>>
             ELSE Append(Digits(n \div 10), DigitChar(n % 10))

\* the decimal numeral of n, zero-padded on the left to w characters
RECURSIVE ZeroPad(_, _)
ZeroPad(n, w) == IF w = 0 THEN <<>>
                 ELSE Append(ZeroPad(n \div 10, w - 1), DigitChar(n % 10))

\* the value of the decimal digits s[lo..hi]
RECURSIVE DigitsValue(_, _, _)
DigitsValue(s, lo, hi) == IF lo > hi THEN 0
                          ELSE 10 * DigitsValue(s, lo, hi - 1) + DigitValue(s[hi])

\* num/den rounded to a whole number, ties to even (num >= 0, den > 0)
RoundHalfEven(num, den) ==
    LET q == num \div den
        r == num % den
    IN  IF 2 * r > den \/ (2 * r = den /\ q % 2 = 1) THEN q + 1 ELSE q


\* 10 ** n
RECURSIVE Pow10(_)
Pow10(n) == IF n = 0 THEN 1 ELSE 10 * Pow10(n - 1)

\* millionths in a unit: the six decimals of "{:.6f}"
Millionths == Pow10(6)

\* Format6f cutting the digits after the sixth decimal instead of rounding
Format6f_Truncating(num, den) ==
    LET mag   == IF num < 0 THEN -num ELSE num
        micro == (mag * Millionths) \div den
        body  == Digits(micro \div Millionths) \o <<".">> \o ZeroPad(micro % Millionths, 6)
    IN  IF num < 0 THEN <<"-">> \o body ELSE body

\* f"{x:.6f}" for the double nearest to num/den (den > 0)
Format6f(num, den) ==
    LET mag   == IF num < 0 THEN -num ELSE num
        micro == RoundHalfEven(mag * Millionths, den)
        body  == Digits(micro \div Millionths) \o <<".">> \o ZeroPad(micro % Millionths, 6)
    IN  IF num < 0 THEN <<"-">> \o body ELSE body

\* The number a fraction attribute denotes, in millionths (what the reader
\* of the Moodle document makes of the literal).
FractionMicro(lit) ==
    LET n    == Len(lit)
        neg  == n > 0 /\ lit[1] = "-"
        from == IF neg THEN 2 ELSE 1
        dots == {i \in from..n : lit[i] = "."}
        dot  == IF dots = {} THEN n + 1 ELSE CHOOSE i \in dots : TRUE
        mag  == DigitsValue(lit, from, dot - 1) * Millionths
                + DigitsValue(lit, dot + 1, n) * Pow10(6 - (n - dot))
    IN  IF neg THEN -mag ELSE mag

(***************************************************************************)
(* Text transforms.                                                        *)
(***************************************************************************)
\* \s
IsSpace(c) == c \in {" ", "\t", "\n", "\r", "\f"}

\* [A-Za-z0-9]
AlnumChars ==
    {
     "A", "B", "C", "D", "E", "F", "G", "H", "I", "J", "K", "L", "M",
     "N", "O", "P", "Q", "R", "S", "T", "U", "V", "W", "X", "Y", "Z",
     "a", "b", "c", "d", "e", "f", "g", "h", "i", "j", "k", "l", "m",
     "n", "o", "p", "q", "r", "s", "t", "u", "v", "w", "x", "y", "z",
     "0", "1", "2", "3", "4", "5", "6", "7", "8", "9"}

IsAlnum(c) == c \in AlnumChars

\* [\)\.\:]
IsLabelEnd(c) == c \in {")", ".", ":"}

\* number of consecutive whitespace characters of s from position i on
RECURSIVE SpaceRun(_, _)
SpaceRun(s, i) == IF i <= Len(s) /\ IsSpace(s[i]) THEN 1 + SpaceRun(s, i + 1) ELSE 0

\* number of consecutive [A-Za-z0-9] characters of s from position i on
RECURSIVE AlnumRun(_, _)
AlnumRun(s, i) == IF i <= Len(s) /\ IsAlnum(s[i]) THEN 1 + AlnumRun(s, i + 1) ELSE 0

\* the pattern with a one-letter label, ^\s*[A-Z][\)\.\:]\s+
opt_prefix_match_OneLetter(s) ==
    LET a == SpaceRun(s, 1)
        p == a + 2
        c == SpaceRun(s, p + 1)
    IN  IF p <= Len(s) /\ s[a + 1] \in {"A", "B", "C", "D"} /\ IsLabelEnd(s[p]) /\ c >= 1
        THEN p + c ELSE 0

\* _opt_prefix = ^\s*([A-Za-z0-9]+)[\)\.\:]\s+ : length of its match at the
\* start of s, 0 when it does not match.  The three character classes are
\* pairwise disjoint, so the greedy runs are the only candidate match.
opt_prefix_match(s) ==
    LET a == SpaceRun(s, 1)
        b == AlnumRun(s, a + 1)
        p == a + b + 1
        c == SpaceRun(s, p + 1)
    IN  IF b >= 1 /\ p <= Len(s) /\ IsLabelEnd(s[p]) /\ c >= 1 THEN p + c ELSE 0

\* _opt_prefix.sub("", text)
opt_prefix_sub(s) == SubSeq(s, opt_prefix_match(s) + 1, Len(s))

\* _inline_math = \$(?!\$)(.+?)\$(?!\$) : end of its match starting at
\* position p of s, 0 when there is none.  "." matches anything but a newline;
\* the lazy group takes the nearest closing "$" that no "$" follows.
inline_math_match(s, p) ==
    LET ends == {q \in (p + 2)..Len(s) :
                    /\ s[q] = "$"
                    /\ (q = Len(s) \/ s[q + 1] # "$")
                    /\ \A j \in (p + 1)..(q - 1) : s[j] # "\n"}
    IN  IF p + 1 <= Len(s) /\ s[p] = "$" /\ s[p + 1] # "$" /\ ends # {}
        THEN CHOOSE q \in ends : \A r \in ends : q <= r
        ELSE 0

\* _inline_math.sub(r"$$\1$$", s), from position i on: matches are taken
\* leftmost first and do not overlap
RECURSIVE inline_math_sub(_, _)
inline_math_sub(s, i) ==
    IF i > Len(s) THEN <<>>
    ELSE LET q == inline_math_match(s, i)
         IN  IF q = 0 THEN <<s[i]>> \o inline_math_sub(s, i + 1)
             ELSE <<"$", "$">> \o SubSeq(s, i + 1, q - 1) \o <<"$", "$">>
                  \o inline_math_sub(s, q + 1)

to_double_dollar_math(s) == inline_math_sub(s, 1)

clean_option_text(s, strip_prefixes, convert_math) ==
    LET text == IF strip_prefixes THEN opt_prefix_sub(s) ELSE s
    IN  IF convert_math THEN to_double_dollar_math(text) ELSE text

clean_general_text(s, convert_math) == IF convert_math THEN to_double_dollar_math(s) ELSE s

\* s.strip()
strip(s) ==
    LET keep == {i \in 1..Len(s) : ~IsSpace(s[i])}
    IN  IF keep = {} THEN <<>>
        ELSE SubSeq(s, CHOOSE i \in keep : \A j \in keep : i <= j,
                       CHOOSE i \in keep : \A j \in keep : i >= j)

\* wrap_p without the test for a leading "<"
wrap_p_AlwaysWrapping(s) ==
    LET t == strip(s)
    IN  IF t = <<>> THEN <<>>
        ELSE <<"<", "p", ">">> \o t \o <<"<", "/", "p", ">">>

wrap_p(s) ==
    LET t == strip(s)
    IN  IF t = <<>> THEN <<>>
        ELSE IF t[1] = "<" THEN t
        ELSE <<"<", "p", ">">> \o t \o <<"<", "/", "p", ">">>

(***************************************************************************)
(* Moodle grading: fractions_from_options.                                 *)
(***************************************************************************)
\* [k for k in keys if options[k] is True]     (want = TRUE)
\* [k for k in keys if options[k] is not True] (want = FALSE)
\* over the keys lo..hi, in key order (halving keeps the evaluation shallow)
RECURSIVE KeysWhere(_, _, _, _)
KeysWhere(options, want, lo, hi) ==
    IF lo > hi THEN <<>>
    ELSE IF lo = hi
         THEN IF (options[lo].ok = TRUE) = want THEN <<lo>> ELSE <<>>
         ELSE LET mid == (lo + hi) \div 2
              IN  KeysWhere(options, want, lo, mid) \o KeysWhere(options, want, mid + 1, hi)

correct_keys(options) == KeysWhere(options, TRUE, 1, Len(options))

wrong_keys(options) == KeysWhere(options, FALSE, 1, Len(options))

\* keylist[:1]
FirstKey(keylist) == IF Len(keylist) = 0 THEN <<>> ELSE <<keylist[1]>>

\* k in keylist
InKeys(k, keylist) == \E i \in 1..Len(keylist) : keylist[i] = k

\* fractions_from_options with the two shares of the multi mode exchanged
fractions_from_options_SharesExchanged(options, single) ==
    LET ck == correct_keys(options)
        wk == wrong_keys(options)
        C  == Len(ck)
        W  == Len(wk)
        share_c == Format6f(100, C)
        share_w == Format6f(-100, W)
    IN  IF single
        THEN [k \in 1..Len(options) |->
                IF InKeys(k, FirstKey(ck))
                THEN <<"1", "0", "0", ".", "0", "0", "0", "0", "0", "0">>
                ELSE <<"0">>]
        ELSE [k \in 1..Len(options) |->
                IF W > 0 /\ options[k].ok # TRUE THEN Format6f(100, W)
                ELSE IF C > 0 /\ options[k].ok = TRUE THEN Format6f(-100, C)
                ELSE <<"0">>]

\* the result dict, as the sequence of its values in key order
fractions_from_options(options, single) ==
    LET ck == correct_keys(options)
        wk == wrong_keys(options)
        C  == Len(ck)
        W  == Len(wk)
        share_c == Format6f(100, C)
        share_w == Format6f(-100, W)
    IN  IF single
        THEN [k \in 1..Len(options) |->
                IF InKeys(k, FirstKey(ck))
                THEN <<"1", "0", "0", ".", "0", "0", "0", "0", "0", "0">>
                ELSE <<"0">>]
        ELSE [k \in 1..Len(options) |->
                IF C > 0 /\ options[k].ok = TRUE THEN share_c
                ELSE IF W > 0 /\ options[k].ok # TRUE THEN share_w
                ELSE <<"0">>]

(***************************************************************************)
(* Inputs of the grading specification.                                    *)
(***************************************************************************)
\* options with the given flags; the k-th option text is the numeral of k
OptionsOfFlags(flags) == [k \in 1..Len(flags) |-> [text |-> Digits(k), ok |-> flags[k]]]

\* every flag sequence of length n
RECURSIVE FlagSeqs(_)
FlagSeqs(n) == IF n = 0 THEN {<<>>}
               ELSE {Append(f, b) : f \in FlagSeqs(n - 1), b \in BOOLEAN}

\* c correct options followed by w wrong ones
BlockFlags(c, w) == [k \in 1..(c + w) |-> k <= c]

GradeOptionMaps ==
    {OptionsOfFlags(f) : f \in UNION {FlagSeqs(n) : n \in 0..MaxGradeOptions}}
    \cup {OptionsOfFlags(BlockFlags(c, w)) : c \in 0..MaxCorrect, w \in 0..MaxWrong}

\* no exception
NoError == [type |-> "", question |-> 0]

NoReturn == [done |-> FALSE, raised |-> FALSE, error |-> NoError, value |-> <<>>]

\* no attempt has been made on an item
NoAttempt == [item |-> 0,
              vars |-> [RESPONSE_1 |-> {}, SCORE |-> 0, MAXSCORE |-> 0, MINSCORE |-> 0,
                        FEEDBACKBASIC |-> <<>>, FEEDBACKMODAL |-> {}]]

GradeInit ==
    /\ pc = "call"
    /\ arg \in {[options |-> o, single |-> s] : o \in GradeOptionMaps, s \in BOOLEAN}
    /\ ret = NoReturn
    /\ uuid_count = 0
    /\ attempt = NoAttempt
    /\ namespace_map = ImportedNamespaceMap
    /\ globals = NoGlobals
    /\ page = NoPage
    /\ files = {}

\* one call of fractions_from_options
Grade ==
    /\ pc = "call"
    /\ ret' = [done |-> TRUE, raised |-> FALSE, error |-> NoError,
               value |-> fractions_from_options(arg.options, arg.single)]
    /\ pc' = "done"
    /\ UNCHANGED <<arg, uuid_count, attempt, namespace_map, globals, page, files>>

GradeNext == Grade

SpecGrade == GradeInit /\ [][GradeNext]_vars

(***************************************************************************)
(* Moodle builders: build_multichoice, build_quiz_xml.                     *)
(***************************************************************************)
\* f"{idx:03d}"
Format03d(idx) == IF idx < 1000 THEN ZeroPad(idx, 3) ELSE Digits(idx)

\* f"{float(x):g}" for the values the number inputs start with
FormatG(x) == CASE x = "1.0" -> <<"1">>
                [] x = "0.3333333" -> <<"0", ".", "3", "3", "3", "3", "3", "3">>

\* "Your answer is correct."
DefaultCorrectFeedback ==
    <<"Y", "o", "u", "r", " ", "a", "n", "s", "w", "e", "r", " ", "i", "s", " ",
      "c", "o", "r", "r", "e", "c", "t", ".">>

\* "Your answer is partially or wholly incorrect."
DefaultWrongFeedback ==
    <<"Y", "o", "u", "r", " ", "a", "n", "s", "w", "e", "r", " ", "i", "s", " ",
      "p", "a", "r", "t", "i", "a", "l", "l", "y", " ", "o", "r", " ",
      "w", "h", "o", "l", "l", "y", " ", "i", "n", "c", "o", "r", "r", "e", "c", "t", ".">>

\* x or default
OrDefault(x, default) == IF x = <<>> THEN default ELSE x

\* sum(1 for v in options.values() if v is True)
num_true(options) == Len(correct_keys(options))

\* the auto-detect flag read the wrong way round
single_mode_Inverted(options, auto_single) ==
    IF auto_single THEN FALSE ELSE num_true(options) = 1

\* single = (num_true == 1) if auto_single else False
single_mode(options, auto_single) == IF auto_single THEN num_true(options) = 1 ELSE FALSE

\* the fractions attached to the answers in reverse order
answers_Reversed(options, fractions, g) ==
    [k \in 1..Len(options) |->
        [fraction |-> fractions[Len(options) + 1 - k],
         format   |-> "html",
         text     |-> wrap_p(clean_option_text(options[k].text,
                                 use_strip(g), use_convert_math(g))),
         feedback |-> <<>>]]

\* the <answer> elements, in options.keys() order
answers(options, fractions, g) ==
    [k \in 1..Len(options) |->
        [fraction |-> fractions[k],
         format   |-> "html",
         text     |-> wrap_p(clean_option_text(options[k].text,
                                 use_strip(g), use_convert_math(g))),
         feedback |-> <<>>]]

\* build_multichoice raises ValueError
multichoice_raises(q) == Len(GetOptions(q)) = 0

\* the <question type="multichoice"> element build_multichoice returns
build_multichoice(idx, q, cfg, g) ==
    LET options   == GetOptions(q)
        single    == single_mode(options, cfg.auto_single)
        fractions == fractions_from_options(options, single)
        raw_qtext == IF use_convert_math(g)
                     THEN clean_general_text(Get(q, "question"), TRUE)
                     ELSE Get(q, "question")
        correct_fb == OrDefault(Get(q, "success"), DefaultCorrectFeedback)
        wrong_fb   == OrDefault(Get(q, "error"), DefaultWrongFeedback)
    IN  [type |-> "multichoice",
         name |-> cfg.name_prefix \o Format03d(idx),
         questiontext |-> wrap_p(raw_qtext),
         generalfeedback |-> <<>>,
         defaultgrade |-> FormatG(cfg.defaultgrade),
         penalty |-> FormatG(cfg.penalty),
         hidden |-> "0",
         idnumber |-> "",
         single |-> IF single THEN "true" ELSE "false",
         shuffleanswers |-> IF cfg.shuffleanswers THEN "true" ELSE "false",
         answernumbering |-> cfg.answernumbering,
         showstandardinstruction |-> "0",
         correctfeedback |-> wrap_p(correct_fb),
         partiallycorrectfeedback |-> wrap_p(wrong_fb),
         incorrectfeedback |-> wrap_p(wrong_fb),
         shownumcorrect |-> TRUE,
         answer |-> answers(options, fractions, g)]

\* index of the first question build_multichoice raises on, 0 if none
FirstRaising(data) ==
    LET bad == {i \in 1..Len(data) : multichoice_raises(data[i])}
    IN  IF bad = {} THEN 0 ELSE CHOOSE i \in bad : \A j \in bad : i <= j

\* build_quiz_xml leaving out the questions build_multichoice rejects
build_quiz_xml_SkippingRejected(data, cfg, g) ==
    [done |-> TRUE, raised |-> FALSE, error |-> NoError,
     value |-> SelectSeq([i \in 1..Len(data) |->
                             IF multichoice_raises(data[i])
                             THEN [type |-> "skipped"]
                             ELSE build_multichoice(i, data[i], cfg, g)],
                         LAMBDA node : node.type = "multichoice")]

\* build_quiz_xml: the <quiz> document, or the exception of the first
\* question that build_multichoice rejects
build_quiz_xml(data, cfg, g) ==
    IF FirstRaising(data) # 0
    THEN [done |-> TRUE, raised |-> TRUE,
          error |-> [type |-> "ValueError", question |-> FirstRaising(data)],
          value |-> <<>>]
    ELSE [done |-> TRUE, raised |-> FALSE, error |-> NoError,
          value |-> [i \in 1..Len(data) |-> build_multichoice(i, data[i], cfg, g)]]

(***************************************************************************)
(* QTI builders: make_item_xml, make_manifest_xml, json_to_qti_zip.        *)
(***************************************************************************)
\* str(uuid.uuid4()) for the n-th token handed out: distinct tokens have
\* distinct texts, and the text contains hyphens
uuid4(n) == Digits(n) \o <<"-", "4", "a">>

\* every choice gets the identifier ID_1
ChoiceId_Constant(k) == <<"I", "D", "_", "1">>

\* f"ID_{i+1}" for i = k - 1
ChoiceId(k) == <<"I", "D", "_">> \o Digits(k)

\* f"{idx:02d}"
Format02d(idx) == IF idx < 100 THEN ZeroPad(idx, 2) ELSE Digits(idx)

IdEmpty == <<"e", "m", "p", "t", "y">>

IdCorrect == <<"c", "o", "r", "r", "e", "c", "t">>

IdIncorrect == <<"i", "n", "c", "o", "r", "r", "e", "c", "t">>

\* expressions of the responseProcessing tree
Variable(id) == [op |-> "variable", identifier |-> id, baseType |-> "", text |-> <<>>, args |-> <<>>]

Correct(id) == [op |-> "correct", identifier |-> id, baseType |-> "", text |-> <<>>, args |-> <<>>]

BaseValue(bt, t) == [op |-> "baseValue", identifier |-> "", baseType |-> bt, text |-> t, args |-> <<>>]

Operator(name, operands) ==
    [op |-> name, identifier |-> "", baseType |-> "", text |-> <<>>, args |-> operands]

SetOutcomeValue(id, e) == [identifier |-> id, expression |-> e]

\* a <responseCondition>: <responseIf> with its test and rules, and the rules
\* of <responseElse> (none when the element is absent)
ResponseCondition(test, rules, elseRules) ==
    [responseIf |-> [test |-> test, rules |-> rules], responseElse |-> elseRules]

OutcomeDeclaration(id, bt, default) ==
    [identifier |-> id, cardinality |-> "single", baseType |-> bt,
     view |-> "", defaultValue |-> <<default>>]

\* response_processing with the two feedback identifiers exchanged and the
\* responseElse branch awarding MAXSCORE
response_processing_Miswired(fb_ok_id, fb_err_id) ==
    << ResponseCondition(
           Operator("isNull", <<Variable("RESPONSE_1")>>),
           <<SetOutcomeValue("FEEDBACKBASIC", BaseValue("identifier", IdEmpty))>>,
           <<>>),
       ResponseCondition(
           Operator("match", <<Variable("RESPONSE_1"), Correct("RESPONSE_1")>>),
           <<SetOutcomeValue("SCORE", Operator("sum", <<Variable("SCORE"), Variable("MAXSCORE")>>)),
             SetOutcomeValue("FEEDBACKBASIC", BaseValue("identifier", IdCorrect))>>,
           <<SetOutcomeValue("SCORE", Variable("MAXSCORE")),
             SetOutcomeValue("FEEDBACKBASIC", BaseValue("identifier", IdIncorrect))>>),
       ResponseCondition(
           Operator("match", <<BaseValue("identifier", IdCorrect), Variable("FEEDBACKBASIC")>>),
           <<SetOutcomeValue("FEEDBACKMODAL",
                 Operator("multiple", <<Variable("FEEDBACKMODAL"),
                                        BaseValue("identifier", fb_err_id)>>))>>,
           <<>>),
       ResponseCondition(
           Operator("match", <<BaseValue("identifier", IdIncorrect), Variable("FEEDBACKBASIC")>>),
           <<SetOutcomeValue("FEEDBACKMODAL",
                 Operator("multiple", <<Variable("FEEDBACKMODAL"),
                                        BaseValue("identifier", fb_ok_id)>>))>>,
           <<>>) >>

\* the <responseProcessing> element: four conditions in document order
response_processing(fb_ok_id, fb_err_id) ==
    << ResponseCondition(
           Operator("isNull", <<Variable("RESPONSE_1")>>),
           <<SetOutcomeValue("FEEDBACKBASIC", BaseValue("identifier", IdEmpty))>>,
           <<>>),
       ResponseCondition(
           Operator("match", <<Variable("RESPONSE_1"), Correct("RESPONSE_1")>>),
           <<SetOutcomeValue("SCORE", Operator("sum", <<Variable("SCORE"), Variable("MAXSCORE")>>)),
             SetOutcomeValue("FEEDBACKBASIC", BaseValue("identifier", IdCorrect))>>,
           <<SetOutcomeValue("SCORE", BaseValue("float", <<"0">>)),
             SetOutcomeValue("FEEDBACKBASIC", BaseValue("identifier", IdIncorrect))>>),
       ResponseCondition(
           Operator("match", <<BaseValue("identifier", IdCorrect), Variable("FEEDBACKBASIC")>>),
           <<SetOutcomeValue("FEEDBACKMODAL",
                 Operator("multiple", <<Variable("FEEDBACKMODAL"),
                                        BaseValue("identifier", fb_ok_id)>>))>>,
           <<>>),
       ResponseCondition(
           Operator("match", <<BaseValue("identifier", IdIncorrect), Variable("FEEDBACKBASIC")>>),
           <<SetOutcomeValue("FEEDBACKMODAL",
                 Operator("multiple", <<Variable("FEEDBACKMODAL"),
                                        BaseValue("identifier", fb_err_id)>>))>>,
           <<>>) >>

\* make_item_xml; u is the number of tokens uuid4 handed out before the call,
\* which takes three more.  The result is the pair (item_id, item).
make_item_xml(title, stem, choices, correct_ids, success_text, error_text, shuffle, u) ==
    LET item_id   == <<"i", "t", "e", "m", "-">> \o uuid4(u + 1)
        fb_ok_id  == <<"i", "d", "-">> \o uuid4(u + 2)
        fb_err_id == <<"i", "d", "-">> \o uuid4(u + 3)
    IN  [item_id |-> item_id,
         item |->
           [identifier |-> item_id,
            title |-> title,
            adaptive |-> "false",
            timeDependent |-> "false",
            responseDeclaration |->
                [identifier |-> "RESPONSE_1", cardinality |-> "multiple",
                 baseType |-> "identifier", correctResponse |-> correct_ids],
            outcomeDeclaration |->
                << OutcomeDeclaration("SCORE", "float", <<"0">>),
                   OutcomeDeclaration("MAXSCORE", "float", <<"1">>),
                   OutcomeDeclaration("MINSCORE", "float", <<"0">>),
                   OutcomeDeclaration("FEEDBACKBASIC", "identifier", IdEmpty),
                   [identifier |-> "FEEDBACKMODAL", cardinality |-> "multiple",
                    baseType |-> "identifier", view |-> "testConstructor",
                    defaultValue |-> <<>>] >>,
            itemBody |->
                [p |-> stem,
                 choiceInteraction |->
                    [responseIdentifier |-> "RESPONSE_1",
                     shuffle |-> IF shuffle THEN "true" ELSE "false",
                     maxChoices |-> "0",
                     simpleChoice |-> [k \in 1..Len(choices) |->
                         [identifier |-> choices[k][1], p |-> choices[k][2]]]]],
            modalFeedback |->
                << [identifier |-> fb_ok_id, outcomeIdentifier |-> "FEEDBACKMODAL",
                    showHide |-> "show", p |-> success_text],
                   [identifier |-> fb_err_id, outcomeIdentifier |-> "FEEDBACKMODAL",
                    showHide |-> "show", p |-> error_text] >>,
            responseProcessing |-> response_processing(fb_ok_id, fb_err_id)]]

\* Path(fname).stem: the name without its last suffix
PathStem(fname) ==
    LET dots == {i \in 2..Len(fname) : fname[i] = "."}
    IN  IF dots = {} THEN fname
        ELSE SubSeq(fname, 1, (CHOOSE i \in dots : \A j \in dots : i >= j) - 1)

\* s.replace('-', '_')
ReplaceHyphens(t) == [i \in 1..Len(t) |-> IF t[i] = "-" THEN "_" ELSE t[i]]

\* make_manifest_xml referring to the items by their stems
make_manifest_xml_Stems(item_filenames) ==
    [identifier |-> "manifestID",
     metadata |-> [schema |-> "QTIv2.1 Package", schemaversion |-> "1.0.0"],
     organizations |-> <<>>,
     resources |-> [i \in 1..Len(item_filenames) |->
        [identifier |-> <<"r", "e", "s", "_">> \o ReplaceHyphens(PathStem(item_filenames[i])),
         type |-> "imsqti_item_xmlv2p1",
         href |-> PathStem(item_filenames[i]),
         file |-> [href |-> item_filenames[i]]]]]

\* the <manifest> element
make_manifest_xml(item_filenames) ==
    [identifier |-> "manifestID",
     metadata |-> [schema |-> "QTIv2.1 Package", schemaversion |-> "1.0.0"],
     organizations |-> <<>>,
     resources |-> [i \in 1..Len(item_filenames) |->
        [identifier |-> <<"r", "e", "s", "_">> \o ReplaceHyphens(PathStem(item_filenames[i])),
         type |-> "imsqti_item_xmlv2p1",
         href |-> item_filenames[i],
         file |-> [href |-> item_filenames[i]]]]]

\* correct_ids_of keeping the identifiers of the options that are not flagged
RECURSIVE correct_ids_of_Negated(_, _)
correct_ids_of_Negated(options, n) ==
    IF n = 0 THEN <<>>
    ELSE IF options[n].ok # TRUE
         THEN Append(correct_ids_of_Negated(options, n - 1), ChoiceId(n))
         ELSE correct_ids_of_Negated(options, n - 1)

\* [cid for cid, ok in zip(choice_ids, choices_bools) if ok], over the first n
RECURSIVE correct_ids_of(_, _)
correct_ids_of(options, n) ==
    IF n = 0 THEN <<>>
    ELSE IF options[n].ok = TRUE
         THEN Append(correct_ids_of(options, n - 1), ChoiceId(n))
         ELSE correct_ids_of(options, n - 1)

\* the body of the loop of json_to_qti_zip raises KeyError: q["options"] or
\* q["question"] is missing
qti_item_raises(q) == "options" \notin q.keys \/ "question" \notin q.keys

\* the body of the loop of json_to_qti_zip for the idx-th question q: the
\* pair (item_id, item) that make_item_xml returns
qti_item(idx, q, strip_prefixes, convert_math, shuffle, item_prefix, u) ==
    LET stem    == clean_general_text(q.question, convert_math)
        choices == [k \in 1..Len(q.options) |->
                       <<ChoiceId(k),
                         clean_option_text(q.options[k].text, strip_prefixes, convert_math)>>]
        title   == item_prefix \o <<"_">> \o Format02d(idx)
    IN  make_item_xml(title, stem, choices, correct_ids_of(q.options, Len(q.options)),
                      clean_general_text(Get(q, "success"), convert_math),
                      clean_general_text(Get(q, "error"), convert_math), shuffle, u)

\* index of the first question the loop of json_to_qti_zip raises on, 0 if none
FirstQtiRaising(items) ==
    LET bad == {i \in 1..Len(items) : qti_item_raises(items[i])}
    IN  IF bad = {} THEN 0 ELSE CHOOSE i \in bad : \A j \in bad : i <= j

\* the manifest is built after make_manifest_xml has registered its prefixes
ManifestNamespaceMap(m) ==
    register_namespace("xsi", NS_XSI, register_namespace("", NS_IMSCP, m))

\* every item restarts the token sequence
tokens_before_Restarting(i, u) == u

\* tokens uuid4 has handed out when the i-th item is built: make_item_xml
\* takes three per item
tokens_before(i, u) == u + 3 * (i - 1)

\* json_to_qti_zip: the archive, as the list of its entries in the order
\* written, or the exception of the first question the loop raises on; u is
\* the number of tokens uuid4 handed out before the call and m the namespace
\* registry at the call
json_to_qti_zip(items, strip_prefixes, convert_math, shuffle, item_prefix, u, m) ==
    LET built == [i \in 1..Len(items) |->
                    qti_item(i, items[i], strip_prefixes, convert_math, shuffle,
                             item_prefix, tokens_before(i, u))]
        item_filenames == [i \in 1..Len(items) |->
                             built[i].item_id \o <<".", "x", "m", "l">>]
        manifest == make_manifest_xml(item_filenames)
    IN  IF FirstQtiRaising(items) # 0
        THEN [done |-> TRUE, raised |-> TRUE,
              error |-> [type |-> "KeyError", question |-> FirstQtiRaising(items)],
              value |-> <<>>]
        ELSE [done |-> TRUE, raised |-> FALSE, error |-> NoError,
              value |->
                [i \in 1..Len(items) |->
                    [name |-> item_filenames[i], kind |-> "item", xml |-> built[i].item,
                     xml_bytes |-> tostring(NS_QTI, built[i].item, m)]]
                \o << [name |-> <<"i", "m", "s", "m", "a", "n", "i", "f", "e", "s", "t",
                                  ".", "x", "m", "l">>,
                       kind |-> "manifest", xml |-> manifest,
                       xml_bytes |-> tostring(NS_IMSCP, manifest, ManifestNamespaceMap(m))] >>]

\* tokens uuid4 has handed out when json_to_qti_zip returns or raises: three
\* for every item built
uuid_after(items, u) ==
    IF FirstQtiRaising(items) # 0 THEN u + 3 * (FirstQtiRaising(items) - 1)
    ELSE u + 3 * Len(items)

\* the namespace registry when json_to_qti_zip returns or raises
namespace_map_after(items, m) ==
    IF FirstQtiRaising(items) # 0 THEN m ELSE ManifestNamespaceMap(m)

(***************************************************************************)
(* Response processing of a delivered item: the rules make_item_xml emits, *)
(* executed as QTI 2.1 defines them.  A container with no value is NULL;   *)
(* match with a NULL operand is NULL; a responseIf whose test is not true  *)
(* (false or NULL) passes control to responseElse.                         *)
(***************************************************************************)
\* the value of a float literal ("0", "1")
FloatValue(t) == DigitsValue(t, 1, Len(t))

OutcomeDecl(item, id) ==
    LET ds == item.outcomeDeclaration
    IN  ds[CHOOSE i \in 1..Len(ds) : ds[i].identifier = id]

\* the variable is declared with cardinality "multiple"
IsContainer(item, id) ==
    IF id = item.responseDeclaration.identifier
    THEN item.responseDeclaration.cardinality = "multiple"
    ELSE OutcomeDecl(item, id).cardinality = "multiple"

\* the default value of a single-cardinality float outcome
DefaultFloat(item, id) == FloatValue(OutcomeDecl(item, id).defaultValue[1])

\* outcome variables at the start of response processing (the item is not
\* adaptive: they start from their declared defaults), with the response
InitialVars(item, response) ==
    [RESPONSE_1    |-> response,
     SCORE         |-> DefaultFloat(item, "SCORE"),
     MAXSCORE      |-> DefaultFloat(item, "MAXSCORE"),
     MINSCORE      |-> DefaultFloat(item, "MINSCORE"),
     FEEDBACKBASIC |-> OutcomeDecl(item, "FEEDBACKBASIC").defaultValue[1],
     FEEDBACKMODAL |-> {}]

SeqRange(q) == {q[i] : i \in 1..Len(q)}

\* value of a container expression, as a set (NULL is the empty set)
RECURSIVE EvalContainer(_, _, _)
EvalContainer(e, env, item) ==
    CASE e.op = "variable"  -> env[e.identifier]
      [] e.op = "correct"   -> SeqRange(item.responseDeclaration.correctResponse)
      [] e.op = "baseValue" -> {e.text}
      [] e.op = "multiple"  ->
            UNION {EvalContainer(e.args[i], env, item) : i \in 1..Len(e.args)}

\* value of a single identifier expression
EvalIdentifier(e, env) ==
    CASE e.op = "baseValue" -> e.text
      [] e.op = "variable"  -> env[e.identifier]

\* value of a float expression
RECURSIVE EvalFloat(_, _)
EvalFloat(e, env) ==
    CASE e.op = "baseValue" -> FloatValue(e.text)
      [] e.op = "variable"  -> env[e.identifier]
      [] e.op = "sum"       -> EvalFloat(e.args[1], env) + EvalFloat(e.args[2], env)

\* the operand is a container
IsContainerExpr(e, item) ==
    \/ e.op = "correct" /\ IsContainer(item, e.identifier)
    \/ e.op = "variable" /\ IsContainer(item, e.identifier)
    \/ e.op = "multiple"

\* the test of a responseIf evaluates to true (not to false, not to NULL)
EvalTrue(e, env, item) ==
    CASE e.op = "isNull" -> EvalContainer(e.args[1], env, item) = {}
      [] e.op = "match"  ->
            IF IsContainerExpr(e.args[1], item)
            THEN LET a == EvalContainer(e.args[1], env, item)
                     b == EvalContainer(e.args[2], env, item)
                 IN  a # {} /\ b # {} /\ a = b
            ELSE EvalIdentifier(e.args[1], env) = EvalIdentifier(e.args[2], env)

\* setOutcomeValue
SetOutcome(rule, env, item) ==
    LET d == OutcomeDecl(item, rule.identifier)
    IN  IF d.cardinality = "multiple"
        THEN [env EXCEPT ![rule.identifier] = EvalContainer(rule.expression, env, item)]
        ELSE IF d.baseType = "float"
        THEN [env EXCEPT ![rule.identifier] = EvalFloat(rule.expression, env)]
        ELSE [env EXCEPT ![rule.identifier] = EvalIdentifier(rule.expression, env)]

\* the first n rules of a branch, in document order
RECURSIVE ExecRules(_, _, _, _)
ExecRules(rules, n, env, item) ==
    IF n = 0 THEN env
    ELSE SetOutcome(rules[n], ExecRules(rules, n - 1, env, item), item)

ExecCondition(rc, env, item) ==
    IF EvalTrue(rc.responseIf.test, env, item)
    THEN ExecRules(rc.responseIf.rules, Len(rc.responseIf.rules), env, item)
    ELSE ExecRules(rc.responseElse, Len(rc.responseElse), env, item)

\* the first n responseConditions, in document order
RECURSIVE ExecConditions(_, _, _, _)
ExecConditions(rcs, n, env, item) ==
    IF n = 0 THEN env
    ELSE ExecCondition(rcs[n], ExecConditions(rcs, n - 1, env, item), item)

\* the outcome variables after response processing of a response
ProcessResponse(item, response) ==
    ExecConditions(item.responseProcessing, Len(item.responseProcessing),
                   InitialVars(item, response), item)

\* the identifiers a candidate can select in the item
ChoiceIds(item) ==
    {item.itemBody.choiceInteraction.simpleChoice[k].identifier :
        k \in 1..Len(item.itemBody.choiceInteraction.simpleChoice)}

(***************************************************************************)
(* Properties of the grading function (checked under SpecGrade).           *)
(***************************************************************************)
Abs(x) == IF x < 0 THEN -x ELSE x

\* the options flagged true / not flagged true, as sets of positions
CorrectSet(options) == {k \in 1..Len(options) : options[k].ok = TRUE}

WrongSet(options) == {k \in 1..Len(options) : options[k].ok # TRUE}

\* sum, in millionths, of the fractions at the positions lo..hi that are in sel
RECURSIVE SumOver(_, _, _, _)
SumOver(fr, sel, lo, hi) ==
    IF lo > hi THEN 0
    ELSE IF lo = hi
         THEN IF lo \in sel THEN FractionMicro(fr[lo]) ELSE 0
         ELSE LET mid == (lo + hi) \div 2
              IN  SumOver(fr, sel, lo, mid) + SumOver(fr, sel, mid + 1, hi)

SumPositive(fr) ==
    SumOver(fr, {k \in 1..Len(fr) : FractionMicro(fr[k]) > 0}, 1, Len(fr))

SumNegative(fr) ==
    SumOver(fr, {k \in 1..Len(fr) : FractionMicro(fr[k]) < 0}, 1, Len(fr))

\* what a response selecting exactly the positions in sel earns
Earned(fr, sel) == SumOver(fr, sel, 1, Len(fr))

\* lit is a decimal literal with exactly six digits after the point
IsSixDecimal(lit) ==
    LET body == IF lit # <<>> /\ lit[1] = "-" THEN Tail(lit) ELSE lit
        n    == Len(body)
    IN  /\ n >= 8
        /\ body[n - 6] = "."
        /\ \A i \in 1..n : i # n - 6 => IsDigit(body[i])

\* m millionths is a nearest six-decimal number to 100/n
IsNearestShare(m, n) == 2 * Abs(m * n - 100 * Millionths) <= n

MultiDone == pc = "done" /\ ~arg.single

\* C2: in multi mode every correct option carries +100/C and every incorrect
\* option carries -100/W, each rounded to six decimals (C, W the counts of
\* correct and incorrect options); with C = 0 no fraction is positive, with
\* W = 0 none is negative; 2 correct + 2 incorrect give 50, 50, -50, -50.
C2_MultiShares ==
    MultiDone =>
        LET o  == arg.options
            fr == ret.value
            C  == Cardinality(CorrectSet(o))
            W  == Cardinality(WrongSet(o))
        IN  /\ Len(fr) = Len(o)
            /\ \A k \in CorrectSet(o) :
                  /\ IsSixDecimal(fr[k])
                  /\ FractionMicro(fr[k]) > 0
                  /\ IsNearestShare(FractionMicro(fr[k]), C)
            /\ \A k \in WrongSet(o) :
                  /\ IsSixDecimal(fr[k])
                  /\ FractionMicro(fr[k]) < 0
                  /\ IsNearestShare(-FractionMicro(fr[k]), W)
            /\ C = 0 => \A k \in 1..Len(fr) : FractionMicro(fr[k]) <= 0
            /\ W = 0 => \A k \in 1..Len(fr) : FractionMicro(fr[k]) >= 0
            /\ (Len(o) = 4 /\ CorrectSet(o) = {1, 2}) =>
                  fr = << <<"5", "0", ".", "0", "0", "0", "0", "0", "0">>,
                          <<"5", "0", ".", "0", "0", "0", "0", "0", "0">>,
                          <<"-", "5", "0", ".", "0", "0", "0", "0", "0", "0">>,
                          <<"-", "5", "0", ".", "0", "0", "0", "0", "0", "0">> >>

\* Scenario B has been graded in multi mode
C2_Witness ==
    /\ MultiDone
    /\ Len(arg.options) = 4
    /\ CorrectSet(arg.options) = {1, 2}
    /\ FractionMicro(ret.value[4]) = -50 * Millionths

\* C3 as stated: with C > 0 and W > 0 in multi mode the positive fractions
\* sum to 100 and the negative ones to -100 with an error strictly below
\* C * 0.0000005 (resp. W * 0.0000005).
C3_StrictRounding ==
    (MultiDone /\ CorrectSet(arg.options) # {} /\ WrongSet(arg.options) # {}) =>
        /\ 2 * Abs(SumPositive(ret.value) - 100 * Millionths) < Cardinality(CorrectSet(arg.options))
        /\ 2 * Abs(SumNegative(ret.value) + 100 * Millionths) < Cardinality(WrongSet(arg.options))

\* C3 amended: the error is at most C * 0.0000005 (resp. W * 0.0000005); the
\* bound is attained when 100/C lies exactly halfway between two six-decimal
\* numbers (C = 512: 512 * 0.195312 = 99.999744).
C3_SumsWithinRounding ==
    (MultiDone /\ CorrectSet(arg.options) # {} /\ WrongSet(arg.options) # {}) =>
        /\ 2 * Abs(SumPositive(ret.value) - 100 * Millionths) <= Cardinality(CorrectSet(arg.options))
        /\ 2 * Abs(SumNegative(ret.value) + 100 * Millionths) <= Cardinality(WrongSet(arg.options))

\* a question with 512 correct options has been graded: the bound is attained
C3_Witness ==
    /\ MultiDone
    /\ WrongSet(arg.options) # {}
    /\ Cardinality(CorrectSet(arg.options)) = 512
    /\ SumPositive(ret.value) = 99999744

\* C4 as stated: in multi mode, with C > 0, selecting all correct options and
\* no incorrect one earns exactly 100.
C4_ExactlyHundred ==
    (MultiDone /\ CorrectSet(arg.options) # {}) =>
        Earned(ret.value, CorrectSet(arg.options)) = 100 * Millionths

\* C4 amended: that response earns C times the six-decimal share, which is
\* exactly 100 if and only if C divides 100000000 and otherwise misses 100 by
\* at most C * 0.0000005 (99.999999 for C = 3, 100.000002 for C = 6,
\* 99.999998 for C = 7).
C4_AllCorrectEarns ==
    (MultiDone /\ CorrectSet(arg.options) # {}) =>
        LET C == Cardinality(CorrectSet(arg.options))
            e == Earned(ret.value, CorrectSet(arg.options))
        IN  /\ (e = 100 * Millionths) <=> ((100 * Millionths) % C = 0)
            /\ 2 * Abs(e - 100 * Millionths) <= C
            /\ C = 3 => e = 99999999
            /\ C = 6 => e = 100000002
            /\ C = 7 => e = 99999998

\* a question with seven correct options has been graded in multi mode
C4_Witness ==
    /\ MultiDone
    /\ Cardinality(CorrectSet(arg.options)) = 7
    /\ Earned(ret.value, CorrectSet(arg.options)) = 99999998

(***************************************************************************)
(* The text transforms as calls: a text is transformed, and the result may *)
(* be transformed again with the same flags.                               *)
(***************************************************************************)
\* longest input text
MaxTextLen == 6
\* number of successive applications
MaxApply == 2

TextAlphabet == {" ", "A", ")", "$"}

Texts == UNION {[1..n -> TextAlphabet] : n \in 0..MaxTextLen}

TextInit ==
    /\ pc = "call"
    /\ arg \in {[s |-> t, strip_prefixes |-> sp, convert_math |-> cm] :
                    t \in Texts, sp \in BOOLEAN, cm \in BOOLEAN}
    /\ ret = NoReturn
    /\ uuid_count = 0
    /\ attempt = NoAttempt
    /\ namespace_map = ImportedNamespaceMap
    /\ globals = NoGlobals
    /\ page = NoPage
    /\ files = {}

\* one call of clean_option_text, on the input or on the previous result
CleanOptionText ==
    /\ Len(ret.value) < MaxApply
    /\ LET cur == IF Len(ret.value) = 0 THEN arg.s ELSE ret.value[Len(ret.value)]
       IN  ret' = [done |-> TRUE, raised |-> FALSE, error |-> NoError,
                   value |-> Append(ret.value,
                       clean_option_text(cur, arg.strip_prefixes, arg.convert_math))]
    /\ pc' = "done"
    /\ UNCHANGED <<arg, uuid_count, attempt, namespace_map, globals, page, files>>

TextNext == CleanOptionText

SpecText == TextInit /\ [][TextNext]_vars

(***************************************************************************)
(* Properties of prefix stripping (checked under SpecText).                *)
(***************************************************************************)
\* t starts with a label token: optional blanks, one or more letters or
\* digits, one of ) . : and at least one blank
HasLabel(t) ==
    \E a \in 0..Len(t), b \in 1..Len(t) :
        /\ a + b + 2 <= Len(t)
        /\ \A i \in 1..a : IsSpace(t[i])
        /\ \A i \in (a + 1)..(a + b) : IsAlnum(t[i])
        /\ IsLabelEnd(t[a + b + 1])
        /\ IsSpace(t[a + b + 2])

\* u is one label token and nothing else
IsLabelToken(u) ==
    \E a \in 0..Len(u), b \in 1..Len(u) :
        /\ a + b + 2 <= Len(u)
        /\ \A i \in 1..a : IsSpace(u[i])
        /\ \A i \in (a + 1)..(a + b) : IsAlnum(u[i])
        /\ IsLabelEnd(u[a + b + 1])
        /\ \A i \in (a + b + 2)..Len(u) : IsSpace(u[i])

IsSuffix(u, t) == Len(u) <= Len(t) /\ u = SubSeq(t, Len(t) - Len(u) + 1, Len(t))

\* the text the i-th application was given
Applied(i) == IF i = 1 THEN arg.s ELSE ret.value[i - 1]

StripOnly == arg.strip_prefixes /\ ~arg.convert_math

\* C10 as stated: stripping the prefix twice gives the same text as stripping
\* it once, for every option text.
C10_StripIdempotent ==
    (StripOnly /\ Len(ret.value) >= 2) => ret.value[2] = ret.value[1]

\* C10 amended: every application removes exactly one leading label (with
\* the blanks around it) when the text starts with one and changes nothing
\* otherwise; so a second application changes the result exactly when the
\* once-stripped text again starts with a label.
C10_StripsOneLabel ==
    StripOnly =>
        \A i \in 1..Len(ret.value) :
            LET prev == Applied(i)
                cur  == ret.value[i]
            IN  /\ IsSuffix(cur, prev)
                /\ ~HasLabel(prev) => cur = prev
                /\ HasLabel(prev) =>
                      /\ IsLabelToken(SubSeq(prev, 1, Len(prev) - Len(cur)))
                      /\ (cur = <<>> \/ ~IsSpace(cur[1]))

\* "A) A) " has been stripped twice: "A) " after the first application,
\* the empty text after the second
C10_Witness ==
    /\ StripOnly
    /\ arg.s = <<"A", ")", " ", "A", ")", " ">>
    /\ Len(ret.value) = 2
    /\ ret.value[1] = <<"A", ")", " ">>
    /\ ret.value[2] = <<>>

(***************************************************************************)
(* Properties of math normalization (checked under SpecText): with         *)
(* strip_prefixes off and convert_math on, clean_option_text(s) is         *)
(* to_double_dollar_math(s).                                               *)
(***************************************************************************)
MathOnly == ~arg.strip_prefixes /\ arg.convert_math

\* t has three or more dollar signs in a row
HasTripleDollar(t) ==
    \E i \in 1..(Len(t) - 2) : t[i] = "$" /\ t[i + 1] = "$" /\ t[i + 2] = "$"

\* C11: math normalization leaves "$$A$$" as it is, a second application
\* returns what the first returned, and no result has a run of three or more
\* dollar signs unless the input had one.
C11_MathIdempotent ==
    MathOnly =>
        \A i \in 1..Len(ret.value) :
            /\ Applied(i) = <<"$", "$", "A", "$", "$">> => ret.value[i] = Applied(i)
            /\ i >= 2 => ret.value[i] = ret.value[i - 1]
            /\ ~HasTripleDollar(arg.s) => ~HasTripleDollar(ret.value[i])

(***************************************************************************)
(* Question lists given to the builders.                                   *)
(***************************************************************************)
\* options of the question of a one-question list
MaxOptions == 3
\* questions of a longer list
MaxQuestions == 2
\* options of each question of a longer list
MaxListOptions == 1

\* the text of the k-th option: labelled "A) k" for odd k, inline math "$k$"
\* for even k
OptionText(k) == IF k % 2 = 1 THEN <<"A", ")", " ">> \o Digits(k)
                 ELSE <<"$">> \o Digits(k) \o <<"$">>

Question(flags, success, error) ==
    [keys     |-> {"question", "options", "success", "error"},
     question |-> <<"$", "x", "$", "=", "?">>,
     options  |-> [k \in 1..Len(flags) |-> [text |-> OptionText(k), ok |-> flags[k]]],
     success  |-> success,
     error    |-> error]

SuccessTexts == {<<>>, <<"O", "K">>}

ErrorTexts == {<<>>, <<"N", "o">>}

RichQuestions ==
    {Question(f, su, er) : f \in UNION {FlagSeqs(n) : n \in 0..MaxOptions},
                           su \in SuccessTexts, er \in ErrorTexts}

SmallQuestions ==
    {Question(f, <<"O", "K">>, <<>>) : f \in UNION {FlagSeqs(n) : n \in 0..MaxListOptions}}

QuestionLists ==
    {<<q>> : q \in RichQuestions}
    \cup UNION {[1..n -> SmallQuestions] : n \in 0..MaxQuestions}

(***************************************************************************)
(* build_quiz_xml as a call.                                               *)
(***************************************************************************)
MoodleConfigs ==
    {[name_prefix |-> <<"Q">>, defaultgrade |-> "1.0", penalty |-> "0.3333333",
      shuffleanswers |-> sh, answernumbering |-> "abc", auto_single |-> au] :
        sh \in BOOLEAN, au \in BOOLEAN}

MoodleInit ==
    /\ pc = "call"
    /\ arg \in {[data |-> d, cfg |-> c] : d \in QuestionLists, c \in MoodleConfigs}
    /\ ret = NoReturn
    /\ uuid_count = 0
    /\ attempt = NoAttempt
    /\ namespace_map = ImportedNamespaceMap
    /\ globals \in ModuleGlobals
    /\ page = NoPage
    /\ files = {}

BuildQuizXml ==
    /\ pc = "call"
    /\ ret' = build_quiz_xml(arg.data, arg.cfg, globals)
    /\ pc' = "done"
    /\ UNCHANGED <<arg, uuid_count, attempt, namespace_map, globals, page, files>>

MoodleNext == BuildQuizXml

SpecMoodle == MoodleInit /\ [][MoodleNext]_vars

\* the quiz document has been returned
QuizBuilt == pc = "done" /\ ~ret.raised

Lit100 == <<"1", "0", "0", ".", "0", "0", "0", "0", "0", "0">>

\* question i has exactly one option flagged true, and its element carries
\* <single>true</single>, 100.000000 on that option and 0 on every other
SingleGraded(i) ==
    LET o    == arg.data[i].options
        node == ret.value[i]
    IN  /\ node.single = "true"
        /\ Len(node.answer) = Len(o)
        /\ \A k \in 1..Len(o) :
              node.answer[k].fraction = IF o[k].ok = TRUE THEN Lit100 ELSE <<"0">>

\* C1 as stated: every question with exactly one option flagged true is
\* emitted with <single>true</single>, fraction 100.000000 on the true option
\* and 0 on every other.
C1_OneCorrectIsSingle ==
    QuizBuilt =>
        \A i \in 1..Len(arg.data) :
            Cardinality(CorrectSet(arg.data[i].options)) = 1 => SingleGraded(i)

\* C1 amended: this holds when auto-detect (auto_single) is enabled; the
\* three-option question false, true, false then gets 0, 100.000000, 0.
C1_AutoSingle ==
    (QuizBuilt /\ arg.cfg.auto_single) =>
        \A i \in 1..Len(arg.data) :
            Cardinality(CorrectSet(arg.data[i].options)) = 1 =>
                /\ SingleGraded(i)
                /\ (Len(arg.data[i].options) = 3 /\ CorrectSet(arg.data[i].options) = {2}) =>
                      /\ ret.value[i].answer[1].fraction = <<"0">>
                      /\ ret.value[i].answer[2].fraction = Lit100
                      /\ ret.value[i].answer[3].fraction = <<"0">>

\* Scenario A has been built with auto-detect enabled
C1_Witness ==
    /\ QuizBuilt
    /\ arg.cfg.auto_single
    /\ Len(arg.data) = 1
    /\ Len(arg.data[1].options) = 3
    /\ CorrectSet(arg.data[1].options) = {2}
    /\ ret.value[1].single = "true"
    /\ ret.value[1].answer[2].fraction = Lit100

(***************************************************************************)
(* json_to_qti_zip as a call, and attempts on the items of its package.    *)
(***************************************************************************)
QtiInit ==
    /\ pc = "call"
    /\ arg \in {[items |-> d, strip_prefixes |-> sp, convert_math |-> cm, shuffle |-> sh,
                 item_prefix |-> <<"I", "t", "e", "m">>] :
                    d \in QuestionLists, sp \in BOOLEAN, cm \in BOOLEAN, sh \in BOOLEAN}
    /\ ret = NoReturn
    /\ uuid_count = 0
    /\ attempt = NoAttempt
    /\ namespace_map = ImportedNamespaceMap
    /\ globals = NoGlobals
    /\ page = NoPage
    /\ files = {}

JsonToQtiZip ==
    /\ pc = "call"
    /\ ret' = json_to_qti_zip(arg.items, arg.strip_prefixes, arg.convert_math,
                               arg.shuffle, arg.item_prefix, uuid_count, namespace_map)
    /\ uuid_count' = uuid_after(arg.items, uuid_count)
    /\ namespace_map' = namespace_map_after(arg.items, namespace_map)
    /\ pc' = "done"
    /\ UNCHANGED <<arg, attempt, globals, page, files>>

\* a candidate submits a response (a set of choices, possibly none) to an
\* item of the package; the delivery engine runs its responseProcessing
Respond ==
    /\ pc = "done"
    /\ ~ret.raised
    /\ attempt = NoAttempt
    /\ \E i \in 1..Len(ret.value) :
          /\ ret.value[i].kind = "item"
          /\ \E response \in SUBSET ChoiceIds(ret.value[i].xml) :
                attempt' = [item |-> i, vars |-> ProcessResponse(ret.value[i].xml, response)]
    /\ UNCHANGED <<pc, arg, ret, uuid_count, namespace_map, globals, page, files>>

QtiNext == JsonToQtiZip \/ Respond

SpecQTI == QtiInit /\ [][QtiNext]_vars

(***************************************************************************)
(* Properties of the QTI package (checked under SpecQTI).                  *)
(***************************************************************************)
\* the package has been returned
PackageBuilt == pc = "done" /\ ~ret.raised

\* the identifier ID_k
IdK(k) == <<"I", "D", "_">> \o Digits(k)

\* the item built for the i-th question
ItemOf(i) == ret.value[i].xml

\* C5: the correctResponse list of every item has as many identifiers as the
\* question has options flagged true; each of them is ID_k for an option k
\* that is flagged true, and is the identifier of the k-th simpleChoice of
\* the same item.
C5_CorrectResponse ==
    PackageBuilt =>
        \A i \in 1..Len(arg.items) :
            LET o  == arg.items[i].options
                cr == ItemOf(i).responseDeclaration.correctResponse
                sc == ItemOf(i).itemBody.choiceInteraction.simpleChoice
            IN  /\ Len(cr) = Cardinality(CorrectSet(o))
                /\ Len(sc) = Len(o)
                /\ \A j \in 1..Len(cr) :
                      \E k \in CorrectSet(o) : cr[j] = IdK(k) /\ sc[k].identifier = cr[j]
                /\ \A j1, j2 \in 1..Len(cr) : j1 # j2 => cr[j1] # cr[j2]
                /\ SeqRange(cr) \subseteq ChoiceIds(ItemOf(i))

\* the question false, true, false has been built: its correct response is ID_2
C5_Witness ==
    /\ PackageBuilt
    /\ Len(arg.items) = 1
    /\ Len(arg.items[1].options) = 3
    /\ CorrectSet(arg.items[1].options) = {2}
    /\ ItemOf(1).responseDeclaration.correctResponse = <<IdK(2)>>

\* an attempt has been processed
Attempted == attempt.item # 0

AttemptItem == ItemOf(attempt.item)

\* the identifiers of the two modalFeedback blocks, success first
OkFeedbackId == AttemptItem.modalFeedback[1].identifier

ErrFeedbackId == AttemptItem.modalFeedback[2].identifier

\* C6: on a null response (no choice selected) response processing ends with
\* FEEDBACKBASIC = empty, SCORE = 0 and neither feedback identifier in
\* FEEDBACKMODAL.
C6_NullResponse ==
    (Attempted /\ attempt.vars.RESPONSE_1 = {}) =>
        /\ attempt.vars.FEEDBACKBASIC = IdEmpty
        /\ attempt.vars.SCORE = 0
        /\ OkFeedbackId \notin attempt.vars.FEEDBACKMODAL
        /\ ErrFeedbackId \notin attempt.vars.FEEDBACKMODAL

\* C7: for a non-null response SCORE is MAXSCORE (1) exactly when the
\* selected identifiers are the declared correct set, and 0 otherwise.
C7_AllOrNothing ==
    (Attempted /\ attempt.vars.RESPONSE_1 # {}) =>
        LET declared == SeqRange(AttemptItem.responseDeclaration.correctResponse)
        IN  /\ attempt.vars.MAXSCORE = 1
            /\ attempt.vars.SCORE \in {0, attempt.vars.MAXSCORE}
            /\ (attempt.vars.SCORE = attempt.vars.MAXSCORE)
                  <=> (attempt.vars.RESPONSE_1 = declared)

\* a response of two choices that is the declared correct set scored 1
C7_Witness ==
    /\ Attempted
    /\ Cardinality(attempt.vars.RESPONSE_1) = 2
    /\ attempt.vars.RESPONSE_1 = SeqRange(AttemptItem.responseDeclaration.correctResponse)
    /\ attempt.vars.SCORE = 1

\* C8: after response processing FEEDBACKMODAL holds the success-feedback
\* identifier iff FEEDBACKBASIC = correct and the error-feedback identifier
\* iff FEEDBACKBASIC = incorrect, never both; the two identifiers are those of
\* the modalFeedback blocks holding the success text and the error text.
C8_FeedbackRouting ==
    Attempted =>
        LET q  == arg.items[attempt.item]
            mf == AttemptItem.modalFeedback
            fm == attempt.vars.FEEDBACKMODAL
        IN  /\ Len(mf) = 2
            /\ mf[1].p = clean_general_text(q.success, arg.convert_math)
            /\ mf[2].p = clean_general_text(q.error, arg.convert_math)
            /\ mf[1].outcomeIdentifier = "FEEDBACKMODAL"
            /\ mf[2].outcomeIdentifier = "FEEDBACKMODAL"
            /\ mf[1].identifier # mf[2].identifier
            /\ (mf[1].identifier \in fm) <=> (attempt.vars.FEEDBACKBASIC = IdCorrect)
            /\ (mf[2].identifier \in fm) <=> (attempt.vars.FEEDBACKBASIC = IdIncorrect)
            /\ ~(mf[1].identifier \in fm /\ mf[2].identifier \in fm)
            /\ fm \subseteq {mf[1].identifier, mf[2].identifier}

\* a correct response has been processed: FEEDBACKMODAL holds the identifier
\* of the success block only
C8_Witness ==
    /\ Attempted
    /\ attempt.vars.FEEDBACKBASIC = IdCorrect
    /\ attempt.vars.FEEDBACKMODAL = {OkFeedbackId}
    /\ AttemptItem.modalFeedback[1].p = <<"O", "K">>

ManifestName == <<"i", "m", "s", "m", "a", "n", "i", "f", "e", "s", "t", ".", "x", "m", "l">>

\* C9: the archive holds one item file per question and imsmanifest.xml; the
\* manifest declares one resource of type imsqti_item_xmlv2p1 per question,
\* in question order, whose href and <file> href are the name of that
\* question's item entry; every item entry is referenced by exactly one
\* resource.
C9_ManifestMatchesArchive ==
    PackageBuilt =>
        LET N   == Len(arg.items)
            zip == ret.value
            res == zip[N + 1].xml.resources
        IN  /\ Len(zip) = N + 1
            /\ zip[N + 1].name = ManifestName
            /\ zip[N + 1].kind = "manifest"
            /\ Len(res) = N
            /\ \A i \in 1..N :
                  /\ zip[i].kind = "item"
                  /\ zip[i].name = zip[i].xml.identifier \o <<".", "x", "m", "l">>
                  /\ zip[i].name # ManifestName
                  /\ Len(zip[i].xml.itemBody.choiceInteraction.simpleChoice)
                        = Len(arg.items[i].options)
                  /\ res[i].type = "imsqti_item_xmlv2p1"
                  /\ res[i].href = zip[i].name
                  /\ res[i].file.href = zip[i].name
                  /\ Cardinality({j \in 1..N : res[j].href = zip[i].name}) = 1
                  /\ Cardinality({j \in 1..N : zip[j].name = zip[i].name}) = 1

\* a package of two questions has been built
C9_Witness ==
    /\ PackageBuilt
    /\ Len(arg.items) = 2
    /\ Len(ret.value) = 3
    /\ ret.value[3].xml.resources[2].href = ret.value[2].name

(***************************************************************************)
(* Identifiers of a package (checked under SpecQTI).                       *)
(***************************************************************************)
\* the generated identifiers of the package: for every item its identifier
\* and the identifiers of its two modalFeedback blocks
PackageIds ==
    [j \in 1..(3 * Len(arg.items)) |->
        LET item == ItemOf((j + 2) \div 3)
        IN  CASE j % 3 = 1 -> item.identifier
              [] j % 3 = 2 -> item.modalFeedback[1].identifier
              [] j % 3 = 0 -> item.modalFeedback[2].identifier]

\* C18: the package has exactly one assessmentItem per question, built from
\* that question (title index, stem, number of choices), and the item
\* identifiers and modalFeedback identifiers of the package (two per item)
\* are pairwise distinct.
C18_UniqueIdentifiers ==
    PackageBuilt =>
        LET N == Len(arg.items)
        IN  /\ Cardinality({j \in 1..Len(ret.value) : ret.value[j].kind = "item"}) = N
            /\ \A i \in 1..N :
                  /\ ret.value[i].kind = "item"
                  /\ ItemOf(i).title = arg.item_prefix \o <<"_", "0">> \o Digits(i)
                  /\ ItemOf(i).itemBody.p
                        = clean_general_text(arg.items[i].question, arg.convert_math)
                  /\ Len(ItemOf(i).itemBody.choiceInteraction.simpleChoice)
                        = Len(arg.items[i].options)
                  /\ Len(ItemOf(i).modalFeedback) = 2
            /\ \A j1, j2 \in 1..(3 * N) : j1 # j2 => PackageIds[j1] # PackageIds[j2]

\* a package of two questions has been built: six generated identifiers
C18_Witness ==
    /\ PackageBuilt
    /\ Len(arg.items) = 2
    /\ Cardinality(SeqRange(PackageIds)) = 6

\* the identifiers of the simpleChoice elements of item i, in document order
ChoiceIdSeq(i) ==
    LET sc == ItemOf(i).itemBody.choiceInteraction.simpleChoice
    IN  [k \in 1..Len(sc) |-> sc[k].identifier]

\* within every item the choice identifiers follow the options order and are
\* pairwise distinct
ChoiceIdsInOrder ==
    \A i \in 1..Len(arg.items) :
        LET ids == ChoiceIdSeq(i)
        IN  /\ Len(ids) = Len(arg.items[i].options)
            /\ \A k \in 1..Len(ids) : ids[k] = IdK(k)
            /\ \A k1, k2 \in 1..Len(ids) : k1 # k2 => ids[k1] # ids[k2]

\* C19 as stated: choice identifiers follow the options order, are pairwise
\* distinct within a question, and the choice identifiers of two different
\* questions of a package are disjoint.
C19_ChoiceIdsNeverReused ==
    PackageBuilt =>
        /\ ChoiceIdsInOrder
        /\ \A i1, i2 \in 1..Len(arg.items) :
              i1 # i2 => SeqRange(ChoiceIdSeq(i1)) \cap SeqRange(ChoiceIdSeq(i2)) = {}

\* C19 amended: choice identifiers follow the options order and are pairwise
\* distinct within a question; every question numbers its choices from ID_1,
\* so the k-th choices of any two questions carry the same identifier.
C19_ChoiceIdsPerQuestion ==
    PackageBuilt =>
        /\ ChoiceIdsInOrder
        /\ \A i1, i2 \in 1..Len(arg.items) :
              \A k \in 1..Len(ChoiceIdSeq(i1)) :
                  k <= Len(ChoiceIdSeq(i2)) => ChoiceIdSeq(i1)[k] = ChoiceIdSeq(i2)[k]

\* a package of two questions with one option each has been built: both
\* choices are ID_1
C19_Witness ==
    /\ PackageBuilt
    /\ Len(arg.items) = 2
    /\ ChoiceIdSeq(1) = <<IdK(1)>>
    /\ ChoiceIdSeq(2) = <<IdK(1)>>

(***************************************************************************)
(* Answers of a Moodle question (checked under SpecMoodle).                *)
(***************************************************************************)
\* what the k-th answer must show: option k is "A) k" for odd k, shown as
\* "k" when prefixes are stripped, and "$k$" for even k, shown as "$$k$$"
\* when math is converted; always inside one paragraph
ExpectedAnswerText(k) ==
    <<"<", "p", ">">>
    \o (IF k % 2 = 1
        THEN (IF globals.moodle_strip_prefixes = "False" THEN <<"A", ")", " ">> ELSE <<>>)
             \o Digits(k)
        ELSE IF globals.moodle_convert_math = "True"
             THEN <<"$", "$">> \o Digits(k) \o <<"$", "$">>
             ELSE <<"$">> \o Digits(k) \o <<"$">>)
    \o <<"<", "/", "p", ">">>

\* C20: in every question node the k-th answer is the k-th option: it shows
\* that option's transformed text and carries the fraction computed for that
\* option, so an answer has a positive fraction iff its option is flagged
\* true.
C20_AnswerOrder ==
    QuizBuilt =>
        \A i \in 1..Len(arg.data) :
            LET o    == arg.data[i].options
                node == ret.value[i]
                fr   == fractions_from_options(o, node.single = "true")
            IN  /\ Len(node.answer) = Len(o)
                /\ \A k \in 1..Len(o) :
                      /\ node.answer[k].text = ExpectedAnswerText(k)
                      /\ node.answer[k].fraction = fr[k]
                      /\ (FractionMicro(node.answer[k].fraction) > 0) <=> (o[k].ok = TRUE)

\* the question false, true, true has been built in multi mode: the
\* fractions are -100, 50, 50 in that order
C20_Witness ==
    /\ QuizBuilt
    /\ Len(arg.data) = 1
    /\ Len(arg.data[1].options) = 3
    /\ CorrectSet(arg.data[1].options) = {2, 3}
    /\ FractionMicro(ret.value[1].answer[1].fraction) = -100 * Millionths
    /\ FractionMicro(ret.value[1].answer[2].fraction) = 50 * Millionths
    /\ FractionMicro(ret.value[1].answer[3].fraction) = 50 * Millionths
    /\ ret.value[1].answer[3].text = ExpectedAnswerText(3)

(***************************************************************************)
(* One process calling the two exporters repeatedly on the same question   *)
(* list with the same arguments; between calls the page may redefine the   *)
(* two Moodle text globals (lines 685-686).  ret.value is the list of the  *)
(* calls made, each with the globals and the namespace registry it found.  *)
(***************************************************************************)
\* calls of one process
MaxCalls == 3
\* questions of the list the process exports
MaxProcessQuestions == 1

ProcessQuestions ==
    {Question(<<TRUE, FALSE>>, <<"O", "K">>, <<"N", "o">>),
     Question(<<>>, <<>>, <<>>)}

ProcessLists == UNION {[1..n -> ProcessQuestions] : n \in 0..MaxProcessQuestions}

\* the values the page's widgets start with (lines 667-669 and 687-691)
DefaultQtiConfig ==
    [strip_prefixes |-> TRUE, convert_math |-> TRUE, shuffle |-> TRUE,
     item_prefix |-> <<"I", "t", "e", "m">>]

DefaultMoodleConfig ==
    [name_prefix |-> <<"I", "t", "e", "m">>, defaultgrade |-> "1.0",
     penalty |-> "0.3333333", shuffleanswers |-> TRUE, answernumbering |-> "abc",
     auto_single |-> TRUE]

ProcessInit ==
    /\ pc = "idle"
    /\ arg \in {[questions |-> d, qti |-> DefaultQtiConfig, moodle |-> DefaultMoodleConfig] :
                    d \in ProcessLists}
    /\ ret = NoReturn
    /\ uuid_count = 0
    /\ attempt = NoAttempt
    /\ namespace_map = ImportedNamespaceMap
    /\ globals = NoGlobals
    /\ page = NoPage
    /\ files = {}

\* the record of a call: the state it found and what it returned or raised
CallRecord(fn, result) ==
    [fn |-> fn, globals |-> globals, namespace_map |-> namespace_map,
     uuid_count |-> uuid_count, result |-> result]

\* the page defines moodle_strip_prefixes and moodle_convert_math from its
\* two checkboxes
DefineGlobals ==
    /\ pc = "idle"
    /\ Len(ret.value) < MaxCalls
    /\ \E sp \in {"True", "False"}, cm \in {"True", "False"} :
          /\ globals' = [moodle_strip_prefixes |-> sp, moodle_convert_math |-> cm]
          /\ globals' # globals
    /\ pc' = "defined"
    /\ UNCHANGED <<arg, ret, uuid_count, attempt, namespace_map, page, files>>

\* one call of json_to_qti_zip
CallJsonToQtiZip ==
    /\ Len(ret.value) < MaxCalls
    /\ ret' = [done |-> TRUE, raised |-> FALSE, error |-> NoError,
               value |-> Append(ret.value,
                   CallRecord("json_to_qti_zip",
                       json_to_qti_zip(arg.questions, arg.qti.strip_prefixes,
                                       arg.qti.convert_math, arg.qti.shuffle,
                                       arg.qti.item_prefix, uuid_count, namespace_map)))]
    /\ uuid_count' = uuid_after(arg.questions, uuid_count)
    /\ namespace_map' = namespace_map_after(arg.questions, namespace_map)
    /\ pc' = "idle"
    /\ UNCHANGED <<arg, attempt, globals, page, files>>

\* one call of build_quiz_xml
CallBuildQuizXml ==
    /\ Len(ret.value) < MaxCalls
    /\ ret' = [done |-> TRUE, raised |-> FALSE, error |-> NoError,
               value |-> Append(ret.value,
                   CallRecord("build_quiz_xml",
                       build_quiz_xml(arg.questions, arg.moodle, globals)))]
    /\ pc' = "idle"
    /\ UNCHANGED <<arg, uuid_count, attempt, namespace_map, globals, page, files>>

ProcessNext == DefineGlobals \/ CallJsonToQtiZip \/ CallBuildQuizXml

SpecProcess == ProcessInit /\ [][ProcessNext]_vars

(***************************************************************************)
(* Properties of repeated calls (checked under SpecProcess).               *)
(***************************************************************************)
\* the calls of fn made so far, as positions of ret.value
CallsOf(fn) == {c \in 1..Len(ret.value) : ret.value[c].fn = fn}

\* the strip-prefixes option a call runs under: on unless the global is
\* defined as False
StripOption(c) == ret.value[c].globals.moodle_strip_prefixes # "False"

\* the convert-math option a call runs under: off unless the global is
\* defined as True
MathOption(c) == ret.value[c].globals.moodle_convert_math = "True"

WithoutIdentifiers(entry) ==
    [tag_prefix |-> entry.xml_bytes.tag_prefix,
     xmlns |-> entry.xml_bytes.xmlns,
     schemaLocation_prefix |-> entry.xml_bytes.schemaLocation_prefix,
     title |-> entry.xml.title,
     responseDeclaration |-> entry.xml.responseDeclaration,
     outcomeDeclaration |-> entry.xml.outcomeDeclaration,
     itemBody |-> entry.xml.itemBody,
     feedback |-> <<entry.xml.modalFeedback[1].p, entry.xml.modalFeedback[2].p>>]

\* C17: every call of json_to_qti_zip finds the namespace registry the first
\* call found, and produces for every question the item XML the first call
\* produced, apart from the generated identifiers.
C17_NoSharedState ==
    \A c1, c2 \in CallsOf("json_to_qti_zip") :
        /\ ret.value[c1].namespace_map = ret.value[c2].namespace_map
        /\ \A i \in 1..Len(arg.questions) :
              WithoutIdentifiers(ret.value[c1].result.value[i])
                 = WithoutIdentifiers(ret.value[c2].result.value[i])

(***************************************************************************)
(* Word export: the Markdown texts and their conversion by pandoc.  A      *)
(* Markdown text is the list of its lines ("\n".join(md) of the code).     *)
(***************************************************************************)
\* chr(ord("A") + j) for j < 26
Letter(j) ==
    <<"A", "B", "C", "D", "E", "F", "G", "H", "I", "J", "K", "L", "M",
      "N", "O", "P", "Q", "R", "S", "T", "U", "V", "W", "X", "Y", "Z">>[j + 1]

\* the three characters the source has between an option and its status,
\* U+00E2 U+20AC U+201D (an em dash that was decoded with the wrong charset)
EmDash == <<"U+00E2", "U+20AC", "U+201D">>

\* both Markdown builders skip a question without a prompt or without options
markdown_skips(q) == strip(Get(q, "question")) = <<>> \/ Len(GetOptions(q)) = 0

\* the lines questions_to_markdown appends for the idx-th question
markdown_question(idx, q, strip_prefixes_for_docx) ==
    IF markdown_skips(q) THEN <<>>
    ELSE << <<"*", "*">> \o Digits(idx) \o <<".", " ">> \o strip(Get(q, "question")) \o <<"*", "*">>,
            <<>> >>
         \o [j \in 1..Len(q.options) |->
                <<"*", "*">> \o <<Letter(j - 1)>> \o <<".", "*", "*", " ">>
                \o clean_option_text(q.options[j].text, strip_prefixes_for_docx, FALSE)
                \o <<" ", " ">>]
         \o << <<>> >>

RECURSIVE questions_to_markdown_from(_, _, _)
questions_to_markdown_from(questions, idx, strip_prefixes_for_docx) ==
    IF idx > Len(questions) THEN <<>>
    ELSE markdown_question(idx, questions[idx], strip_prefixes_for_docx)
         \o questions_to_markdown_from(questions, idx + 1, strip_prefixes_for_docx)

\* questions_to_markdown: the student version
questions_to_markdown(questions, strip_prefixes_for_docx) ==
    questions_to_markdown_from(questions, 1, strip_prefixes_for_docx)

\* the two lines of an option of the teacher version
markdown_full_option(j, option, strip_prefixes_for_docx) ==
    << <<"*", "*">> \o <<Letter(j - 1)>> \o <<".", "*", "*", " ">>
       \o clean_option_text(option.text, strip_prefixes_for_docx, FALSE)
       \o <<" ">> \o EmDash \o <<" ">> \o <<"*", "*">>
       \o (IF option.ok = TRUE THEN <<"T", "R", "U", "E">> ELSE <<"F", "A", "L", "S", "E">>)
       \o <<"*", "*">> \o <<" ", " ">>,
       <<>> >>

RECURSIVE markdown_full_options(_, _, _)
markdown_full_options(options, j, strip_prefixes_for_docx) ==
    IF j > Len(options) THEN <<>>
    ELSE markdown_full_option(j, options[j], strip_prefixes_for_docx)
         \o markdown_full_options(options, j + 1, strip_prefixes_for_docx)

\* the lines questions_to_markdown_full appends for the idx-th question
markdown_full_question(idx, q, strip_prefixes_for_docx) ==
    LET success_fb == strip(Get(q, "success"))
        error_fb   == strip(Get(q, "error"))
    IN  IF markdown_skips(q) THEN <<>>
        ELSE << <<"*", "*">> \o Digits(idx) \o <<".", " ">> \o strip(Get(q, "question")) \o <<"*", "*">>,
                <<>> >>
             \o markdown_full_options(q.options, 1, strip_prefixes_for_docx)
             \o (IF success_fb # <<>>
                 THEN << <<"*", "F", "e", "e", "d", "b", "a", "c", "k", " ", "f", "o", "r", " ", "c", "o", "r", "r", "e", "c", "t", " ", "a", "n", "s", "w", "e", "r", "s", ":", "*">>,
                         success_fb \o <<" ", " ">>, <<>> >>
                 ELSE <<>>)
             \o (IF error_fb # <<>>
                 THEN << <<"*", "F", "e", "e", "d", "b", "a", "c", "k", " ", "f", "o", "r", " ", "i", "n", "c", "o", "r", "r", "e", "c", "t", "/", "p", "a", "r", "t", "i", "a", "l", " ", "a", "n", "s", "w", "e", "r", "s", ":", "*">>,
                         error_fb \o <<" ", " ">>, <<>> >>
                 ELSE <<>>)
             \o << <<>> >>

RECURSIVE questions_to_markdown_full_from(_, _, _)
questions_to_markdown_full_from(questions, idx, strip_prefixes_for_docx) ==
    IF idx > Len(questions) THEN <<>>
    ELSE markdown_full_question(idx, questions[idx], strip_prefixes_for_docx)
         \o questions_to_markdown_full_from(questions, idx + 1, strip_prefixes_for_docx)

\* questions_to_markdown_full: the teacher version
questions_to_markdown_full(questions, strip_prefixes_for_docx) ==
    questions_to_markdown_full_from(questions, 1, strip_prefixes_for_docx)

\* what running pandoc can do: write the document and exit with 0, exit with
\* another code, or not be there to be run (FileNotFoundError)
PandocOutcomes == {"converted", "exit_nonzero", "not_found"}

\* the document pandoc writes for a Markdown text
pandoc(md_text) == [format |-> "docx", body |-> md_text]

\* the temporary files of the n-th call of markdown_to_docx
md_path(n) == [suffix |-> ".md", n |-> n]

docx_path(n) == [suffix |-> ".docx", n |-> n]

\* markdown_to_docx, n-th call, with what pandoc does: the buffer returned or
\* the exception raised, the message shown and the temporary files left
markdown_to_docx(md_text, n, outcome) ==
    CASE outcome = "converted" ->
            [raised |-> FALSE, error |-> "", buffer |-> pandoc(md_text),
             messages |-> <<>>, files |-> {}]
      [] outcome = "exit_nonzero" ->
            [raised |-> TRUE, error |-> "RuntimeError", buffer |-> pandoc(<<>>),
             messages |-> <<[kind |-> "error", format |-> "Pandoc",
                             text |-> "Pandoc failed (exit code, stderr)"]>>,
             files |-> {}]
      [] outcome = "not_found" ->
            [raised |-> TRUE, error |-> "FileNotFoundError", buffer |-> pandoc(<<>>),
             messages |-> <<>>, files |-> {md_path(n)}]

(***************************************************************************)
(* The export run: the block under "if convert_clicked" (lines 704-872),   *)
(* one action per stage.  ret.value holds the locals of the run.           *)
(***************************************************************************)
\* questions of an uploaded list
MaxExportQuestions == 2

\* a result buffer: None, or bytes
None == [none |-> TRUE, data |-> <<>>]

Bytes(data) == [none |-> FALSE, data |-> data]

\* the locals before the stages run
NoLocals ==
    [qti_zip_bytes |-> None, moodle_xml_bytes |-> None,
     word_clean_bytes |-> None, word_full_bytes |-> None, outputs |-> <<>>]

\* a question without the key "question"
WithoutPrompt(q) == [q EXCEPT !.keys = @ \ {"question"}, !.question = <<>>]

\* a question without the key "options"
WithoutOptions(q) == [q EXCEPT !.keys = @ \ {"options"}, !.options = <<>>]

GoodQuestion == Question(<<TRUE, FALSE>>, <<"O", "K">>, <<"N", "o">>)

ExportQuestions ==
    {GoodQuestion,
     Question(<<>>, <<"O", "K">>, <<>>),
     WithoutPrompt(GoodQuestion),
     WithoutOptions(GoodQuestion)}

ExportLists == UNION {[1..n -> ExportQuestions] : n \in 0..MaxExportQuestions}

\* what the checkboxes allow: Word's two versions only under Word, and the
\* button is enabled only with a format selected (line 701)
Selections ==
    {s \in [qti_selected : BOOLEAN, moodle_selected : BOOLEAN, word_selected : BOOLEAN,
            word_clean_selected : BOOLEAN, word_full_selected : BOOLEAN] :
        /\ (s.qti_selected \/ s.moodle_selected \/ s.word_selected)
        /\ (~s.word_selected => (~s.word_clean_selected /\ ~s.word_full_selected))}

\* what was uploaded: nothing, bytes that are not JSON, a JSON value that is
\* neither a list nor an object with "questions", or a question list (plain,
\* or wrapped in an object)
Uploads == {"none", "unparsable", "other", "list", "object"}

ExportInit ==
    /\ pc = "start"
    /\ \E sel \in Selections, up \in Uploads, d \in ExportLists :
          /\ (up \notin {"list", "object"} => d = <<>>)
          /\ arg = [selected |-> sel, uploaded |-> up, questions |-> d,
                    base_prefix |-> <<"q", "u", "i", "z">>,
                    qti |-> [DefaultQtiConfig EXCEPT !.item_prefix = <<"q", "u", "i", "z">>],
                    moodle |-> [DefaultMoodleConfig EXCEPT !.name_prefix = <<"q", "u", "i", "z">>]]
          /\ globals = IF sel.moodle_selected
                       THEN [moodle_strip_prefixes |-> "True", moodle_convert_math |-> "True"]
                       ELSE NoGlobals
    /\ ret = [done |-> FALSE, raised |-> FALSE, error |-> NoError, value |-> NoLocals]
    /\ uuid_count = 0
    /\ attempt = NoAttempt
    /\ namespace_map = ImportedNamespaceMap
    /\ page = NoPage
    /\ files = {}

Message(kind, format, text) == [kind |-> kind, format |-> format, text |-> text]

\* except clauses that catch ValueError only
Caught_OnlyValueError(type) == type = "ValueError"

\* "except Exception" catches every exception the stages raise: they are all
\* subclasses of Exception
Caught(type) ==
    type \in {"AssertionError", "KeyError", "ValueError", "RuntimeError", "FileNotFoundError"}

\* the run ends on an exception no handler caught
Abort(type) ==
    /\ pc' = "aborted"
    /\ ret' = [ret EXCEPT !.done = TRUE, !.raised = TRUE, !.error = [type |-> type, question |-> 0]]

\* lines 705-736: the checks before the stages
Start ==
    /\ pc = "start"
    /\ CASE arg.uploaded = "none" ->
              /\ page' = [page EXCEPT !.messages =
                    Append(@, Message("error", "", "Please upload a JSON file first."))]
              /\ pc' = "done"
         [] arg.uploaded = "unparsable" ->
              /\ page' = [page EXCEPT !.messages =
                    Append(@, Message("error", "", "Could not parse JSON"))]
              /\ pc' = "done"
         [] arg.uploaded = "other" ->
              /\ page' = [page EXCEPT !.messages =
                    Append(@, Message("error", "", "JSON must be a LIST of questions"))]
              /\ pc' = "done"
         [] arg.uploaded \in {"list", "object"} ->
              /\ page' = page
              /\ pc' = "qti"
    /\ ret' = [ret EXCEPT !.done = (pc' = "done")]
    /\ UNCHANGED <<arg, uuid_count, attempt, namespace_map, globals, files>>

\* every stage runs, whatever was selected
Requested_Always(sel, format) == TRUE

\* if qti_selected: / if moodle_selected: / if word_selected:
Requested(sel, format) ==
    CASE format = "qti"    -> sel.qti_selected
      [] format = "moodle" -> sel.moodle_selected
      [] format = "word"   -> sel.word_selected

\* the try block of the QTI stage (lines 742-754): the sanity check on the
\* first question, then json_to_qti_zip
qti_try(questions, cfg, u, m) ==
    IF questions # <<>> /\ ~({"question", "options"} \subseteq questions[1].keys)
    THEN [done |-> TRUE, raised |-> TRUE,
          error |-> [type |-> "AssertionError", question |-> 1], value |-> <<>>]
    ELSE json_to_qti_zip(questions, cfg.strip_prefixes, cfg.convert_math, cfg.shuffle,
                         cfg.item_prefix, u, m)

\* lines 739-757
ExportQti ==
    /\ pc = "qti"
    /\ IF ~Requested(arg.selected, "qti")
       THEN /\ pc' = "moodle"
            /\ UNCHANGED <<ret, uuid_count, namespace_map, page>>
       ELSE LET r == qti_try(arg.questions, arg.qti, uuid_count, namespace_map)
                check_failed == r.raised /\ r.error.type = "AssertionError"
            IN  /\ uuid_count' = IF check_failed THEN uuid_count
                                 ELSE uuid_after(arg.questions, uuid_count)
                /\ namespace_map' = IF check_failed THEN namespace_map
                                    ELSE namespace_map_after(arg.questions, namespace_map)
                /\ IF ~r.raised
                   THEN /\ ret' = [ret EXCEPT !.value.qti_zip_bytes = Bytes(r.value)]
                        /\ page' = [page EXCEPT !.messages =
                              Append(@, Message("success", "QTI", "QTI package created."))]
                        /\ pc' = "moodle"
                   ELSE IF Caught(r.error.type)
                   THEN /\ ret' = ret
                        /\ page' = [page EXCEPT !.messages =
                              Append(@, Message("error", "QTI", "QTI conversion failed"))]
                        /\ pc' = "moodle"
                   ELSE /\ Abort(r.error.type)
                        /\ page' = page
    /\ UNCHANGED <<arg, attempt, globals, files>>

\* lines 760-777
ExportMoodle ==
    /\ pc = "moodle"
    /\ IF ~Requested(arg.selected, "moodle")
       THEN /\ pc' = "word"
            /\ UNCHANGED <<ret, page>>
       ELSE LET r == build_quiz_xml(arg.questions, arg.moodle, globals)
            IN  IF ~r.raised
                THEN /\ ret' = [ret EXCEPT !.value.moodle_xml_bytes = Bytes(r.value)]
                     /\ page' = [page EXCEPT !.messages =
                           Append(@, Message("success", "Moodle", "Moodle XML generated."))]
                     /\ pc' = "word"
                ELSE IF Caught(r.error.type)
                THEN /\ ret' = ret
                     /\ page' = [page EXCEPT !.messages =
                           Append(@, Message("error", "Moodle", "Moodle conversion failed"))]
                     /\ pc' = "word"
                ELSE /\ Abort(r.error.type)
                     /\ page' = page
    /\ UNCHANGED <<arg, uuid_count, attempt, namespace_map, globals, files>>

\* the Word stage losing the first document when the second conversion fails
word_try_DroppingEarlier(questions, sel, o1, o2) ==
    LET clean == markdown_to_docx(questions_to_markdown(questions, TRUE), 1, o1)
        nfull == IF sel.word_clean_selected THEN 2 ELSE 1
        full  == markdown_to_docx(questions_to_markdown_full(questions, TRUE), nfull, o2)
        clean_ran == sel.word_clean_selected
        full_ran  == sel.word_full_selected /\ ~(clean_ran /\ clean.raised)
    IN  [word_clean_bytes |-> IF clean_ran /\ ~clean.raised /\ ~(full_ran /\ full.raised)
                              THEN Bytes(clean.buffer) ELSE None,
         word_full_bytes  |-> IF full_ran /\ ~full.raised THEN Bytes(full.buffer) ELSE None,
         messages |->
            (IF clean_ran
             THEN clean.messages
                  \o (IF clean.raised THEN <<>>
                      ELSE <<Message("success", "Word", "Word (questions only) generated.")>>)
             ELSE <<>>)
            \o (IF full_ran
                THEN full.messages
                     \o (IF full.raised THEN <<>>
                         ELSE <<Message("success", "Word",
                                        "Word (with answers + feedback) generated.")>>)
                ELSE <<>>),
         files |-> (IF clean_ran THEN clean.files ELSE {})
                   \cup (IF full_ran THEN full.files ELSE {}),
         raised |-> (clean_ran /\ clean.raised) \/ (full_ran /\ full.raised),
         error |-> IF clean_ran /\ clean.raised THEN clean.error
                   ELSE IF full_ran /\ full.raised THEN full.error ELSE ""]

\* the try block of the Word stage (lines 785-801) with what pandoc does in
\* its first and second run: the two buffers, the messages, the files left,
\* and the exception that ended the block, if any
word_try(questions, sel, o1, o2) ==
    LET clean == markdown_to_docx(questions_to_markdown(questions, TRUE), 1, o1)
        nfull == IF sel.word_clean_selected THEN 2 ELSE 1
        full  == markdown_to_docx(questions_to_markdown_full(questions, TRUE), nfull, o2)
        clean_ran == sel.word_clean_selected
        full_ran  == sel.word_full_selected /\ ~(clean_ran /\ clean.raised)
    IN  [word_clean_bytes |-> IF clean_ran /\ ~clean.raised THEN Bytes(clean.buffer) ELSE None,
         word_full_bytes  |-> IF full_ran /\ ~full.raised THEN Bytes(full.buffer) ELSE None,
         messages |->
            (IF clean_ran
             THEN clean.messages
                  \o (IF clean.raised THEN <<>>
                      ELSE <<Message("success", "Word", "Word (questions only) generated.")>>)
             ELSE <<>>)
            \o (IF full_ran
                THEN full.messages
                     \o (IF full.raised THEN <<>>
                         ELSE <<Message("success", "Word",
                                        "Word (with answers + feedback) generated.")>>)
                ELSE <<>>),
         files |-> (IF clean_ran THEN clean.files ELSE {})
                   \cup (IF full_ran THEN full.files ELSE {}),
         raised |-> (clean_ran /\ clean.raised) \/ (full_ran /\ full.raised),
         error |-> IF clean_ran /\ clean.raised THEN clean.error
                   ELSE IF full_ran /\ full.raised THEN full.error ELSE ""]

\* f"Word export failed: {e}" for the two exceptions markdown_to_docx ends on
WordFailure(error) ==
    CASE error = "RuntimeError" -> "Word export failed: Pandoc conversion failed"
      [] error = "FileNotFoundError" ->
            "Word export failed: [Errno 2] No such file or directory: 'pandoc'"

\* lines 780-805
ExportWord ==
    /\ pc = "word"
    /\ IF ~Requested(arg.selected, "word")
       THEN /\ pc' = "offer"
            /\ UNCHANGED <<ret, page, files>>
       ELSE \E o1 \in PandocOutcomes, o2 \in PandocOutcomes :
              LET r == word_try(arg.questions, arg.selected, o1, o2)
              IN  /\ files' = files \cup r.files
                  /\ IF r.raised /\ ~Caught(r.error)
                     THEN /\ Abort(r.error)
                          /\ page' = [page EXCEPT !.messages = @ \o r.messages]
                     ELSE /\ ret' = [ret EXCEPT !.value.word_clean_bytes = r.word_clean_bytes,
                                                !.value.word_full_bytes = r.word_full_bytes]
                          /\ page' = [page EXCEPT !.messages = @ \o r.messages
                                \o (IF r.raised
                                    THEN <<Message("error", "Word", WordFailure(r.error))>>
                                    ELSE <<>>)]
                          /\ pc' = "offer"
    /\ UNCHANGED <<arg, uuid_count, attempt, namespace_map, globals>>

Output(label, filename, buffer, key_suffix) ==
    IF buffer.none THEN <<>>
    ELSE <<[label |-> label, filename |-> filename, data |-> buffer.data,
            key_suffix |-> key_suffix]>>

\* lines 809-845: the outputs, in the order QTI, Moodle, Word, Word with answers
collect_outputs(locals, a) ==
    Output("QTI package", a.qti.item_prefix \o <<"_", "q", "t", "i", "_", "m", "c", "q", ".", "z", "i", "p">>,
           locals.qti_zip_bytes, "qti")
    \o Output("Moodle XML", a.moodle.name_prefix \o <<"_", "m", "o", "o", "d", "l", "e", "_", "m", "c", "q", ".", "x", "m", "l">>,
              locals.moodle_xml_bytes, "moodle")
    \o Output("Word (questions only)", a.base_prefix \o <<"_", "q", "u", "e", "s", "t", "i", "o", "n", "s", ".", "d", "o", "c", "x">>,
              locals.word_clean_bytes, "word_clean")
    \o Output("Word (answers + feedback)", a.base_prefix \o <<"_", "q", "u", "e", "s", "t", "i", "o", "n", "s", "_", "w", "i", "t", "h", "_", "a", "n", "s", "w", "e", "r", "s", ".", "d", "o", "c", "x">>,
              locals.word_full_bytes, "word_full")

\* lines 860-863: the archive holding every output under its file name
package_zip(outputs) ==
    [k \in 1..Len(outputs) |-> [name |-> outputs[k].filename, data |-> outputs[k].data]]

\* lines 848-872: no output, an info message; one output, its download
\* button; several outputs, one download button for the package.  The key of
\* a button is written without its prefix "download_".
download_buttons(outputs, a) ==
    IF Len(outputs) = 0 THEN <<>>
    ELSE IF Len(outputs) = 1
    THEN <<[key |-> outputs[1].key_suffix, label |-> outputs[1].label,
            file_name |-> outputs[1].filename, package |-> FALSE,
            data |-> outputs[1].data, entries |-> <<>>]>>
    ELSE <<[key |-> "package", label |-> "TRANSFER-ASS package (ZIP)",
            file_name |-> a.base_prefix \o <<"_", "p", "a", "c", "k", "a", "g", "e", ".", "z", "i", "p">>, package |-> TRUE,
            data |-> <<>>, entries |-> package_zip(outputs)]>>

\* lines 808-872
Offer ==
    /\ pc = "offer"
    /\ LET outputs == collect_outputs(ret.value, arg)
       IN  /\ ret' = [ret EXCEPT !.done = TRUE, !.value.outputs = outputs]
           /\ page' = [page EXCEPT
                 !.messages = IF Len(outputs) = 0
                              THEN Append(@, Message("info", "",
                                     "No downloadable file was created due to previous errors."))
                              ELSE @,
                 !.buttons = @ \o download_buttons(outputs, arg)]
    /\ pc' = "done"
    /\ UNCHANGED <<arg, uuid_count, attempt, namespace_map, globals, files>>

ExportNext == Start \/ ExportQti \/ ExportMoodle \/ ExportWord \/ Offer

SpecExport == ExportInit /\ [][ExportNext]_vars

(***************************************************************************)
(* Properties of the export run (checked under SpecExport).                *)
(***************************************************************************)
\* the run went past its input checks and has ended
RunEnded == arg.uploaded \in {"list", "object"} /\ pc \in {"done", "aborted"}

\* the file name the run gives the output of a format
FileName(key) ==
    CASE key = "qti" -> arg.qti.item_prefix \o <<"_", "q", "t", "i", "_", "m", "c", "q", ".", "z", "i", "p">>
      [] key = "moodle" -> arg.moodle.name_prefix \o <<"_", "m", "o", "o", "d", "l", "e", "_", "m", "c", "q", ".", "x", "m", "l">>
      [] key = "word_clean" -> arg.base_prefix \o <<"_", "q", "u", "e", "s", "t", "i", "o", "n", "s", ".", "d", "o", "c", "x">>
      [] key = "word_full" -> arg.base_prefix \o <<"_", "q", "u", "e", "s", "t", "i", "o", "n", "s", "_", "w", "i", "t", "h", "_", "a", "n", "s", "w", "e", "r", "s", ".", "d", "o", "c", "x">>

Buttons == {page.buttons[b] : b \in 1..Len(page.buttons)}

\* the output has a download button of its own
OfferedIndividually(key) == \E b \in Buttons : ~b.package /\ b.key = key

\* the output is an entry of a package that has a download button
OfferedInPackage(key) ==
    \E b \in Buttons : b.package /\ \E e \in 1..Len(b.entries) : b.entries[e].name = FileName(key)

Offered(key) == OfferedIndividually(key) \/ OfferedInPackage(key)

\* the buffers offered for a format, individually or inside a package
OfferedData(key) ==
    {b.data : b \in {x \in Buttons : ~x.package /\ x.key = key}}
    \cup UNION {{b.entries[e].data : e \in {n \in 1..Len(b.entries) :
                                               b.entries[n].name = FileName(key)}} :
                   b \in {x \in Buttons : x.package}}

\* the page shows an error message naming the format
HasError(format) ==
    \E n \in 1..Len(page.messages) :
        page.messages[n].kind = "error" /\ page.messages[n].format = format

\* the list has a question whose options map is present and empty
HasEmptyOptions ==
    \E i \in 1..Len(arg.questions) :
        "options" \in arg.questions[i].keys /\ Len(arg.questions[i].options) = 0

\* no question makes the QTI stage raise: each has a prompt and options
QtiBuildable ==
    \A i \in 1..Len(arg.questions) : {"question", "options"} \subseteq arg.questions[i].keys

\* no question makes build_multichoice raise: each has a non-empty options map
MoodleBuildable ==
    \A i \in 1..Len(arg.questions) :
        "options" \in arg.questions[i].keys /\ Len(arg.questions[i].options) > 0

\* C12: a list with a question whose options map is empty yields no QTI and
\* no Moodle buffer; each of the two stages that was requested reports an
\* error.
C12_EmptyOptionsRejected ==
    (RunEnded /\ HasEmptyOptions) =>
        /\ ret.value.qti_zip_bytes.none
        /\ ret.value.moodle_xml_bytes.none
        /\ ~Offered("qti")
        /\ ~Offered("moodle")
        /\ arg.selected.qti_selected => HasError("QTI")
        /\ arg.selected.moodle_selected => HasError("Moodle")

\* C13: the run never ends on an exception of a stage; a requested format
\* whose stage raises is reported by an error message naming it, and every
\* requested format whose own stage does not raise is built and offered,
\* whatever the other stages did.
C13_FailuresIsolated ==
    /\ pc # "aborted"
    /\ RunEnded =>
        /\ arg.selected.qti_selected =>
              IF QtiBuildable THEN Offered("qti") /\ ~HasError("QTI")
              ELSE HasError("QTI") /\ ~Offered("qti")
        /\ arg.selected.moodle_selected =>
              IF MoodleBuildable THEN Offered("moodle") /\ ~HasError("Moodle")
              ELSE HasError("Moodle") /\ ~Offered("moodle")
        /\ arg.selected.word_clean_selected => (Offered("word_clean") \/ HasError("Word"))
        /\ arg.selected.word_full_selected => (Offered("word_full") \/ HasError("Word"))
        /\ ~arg.selected.qti_selected => ~HasError("QTI")
        /\ ~arg.selected.moodle_selected => ~HasError("Moodle")
        /\ ~arg.selected.word_selected => ~HasError("Word")

\* the QTI stage and the Word stage failed and the Moodle document, built
\* between them, is offered
C13_Witness ==
    /\ RunEnded
    /\ HasError("QTI")
    /\ HasError("Word")
    /\ Offered("moodle")
    /\ ~Offered("qti")
    /\ ~Offered("word_clean")

\* C14: a format one of whose questions makes its builder raise contributes
\* no buffer, neither as a download of its own nor as an entry of the
\* package; every QTI buffer offered holds one item per question and the
\* manifest, every Moodle buffer offered holds one question node per
\* question, and every Word buffer offered is the conversion of the whole
\* Markdown text generated from the list (never the rest of a failed
\* conversion).
C14_NoPartialOutput ==
    RunEnded =>
        LET N == Len(arg.questions)
        IN  /\ ~QtiBuildable => (OfferedData("qti") = {} /\ ret.value.qti_zip_bytes.none)
            /\ ~MoodleBuildable =>
                  (OfferedData("moodle") = {} /\ ret.value.moodle_xml_bytes.none)
            /\ \A zip \in OfferedData("qti") :
                  /\ Len(zip) = N + 1
                  /\ \A i \in 1..N :
                        /\ zip[i].kind = "item"
                        /\ zip[i].xml.title = arg.qti.item_prefix \o <<"_", "0">> \o Digits(i)
                  /\ zip[N + 1].kind = "manifest"
            /\ \A quiz \in OfferedData("moodle") :
                  /\ Len(quiz) = N
                  /\ \A i \in 1..N :
                        /\ quiz[i].type = "multichoice"
                        /\ quiz[i].name = arg.moodle.name_prefix \o <<"0", "0">> \o Digits(i)
            /\ \A docx \in OfferedData("word_clean") :
                  docx = pandoc(questions_to_markdown(arg.questions, TRUE))
            /\ \A docx \in OfferedData("word_full") :
                  docx = pandoc(questions_to_markdown_full(arg.questions, TRUE))

\* build_multichoice raised on the second of two questions, after the node
\* of the first was built: no Moodle buffer is offered, and the QTI package
\* of two items is
C14_Witness ==
    /\ RunEnded
    /\ Len(arg.questions) = 2
    /\ ~multichoice_raises(arg.questions[1])
    /\ multichoice_raises(arg.questions[2])
    /\ arg.selected.moodle_selected
    /\ OfferedData("moodle") = {}
    /\ \E zip \in OfferedData("qti") : Len(zip) = 3

\* C15: when more than one output was built, every output has a download
\* button of its own and there is one package, holding exactly one entry per
\* output with that output's bytes.
C15_IndividualAndBundle ==
    (pc = "done" /\ Len(ret.value.outputs) >= 2) =>
        LET outputs == ret.value.outputs
        IN  /\ \A k \in 1..Len(outputs) :
                  \E b \in Buttons : /\ ~b.package
                                     /\ b.key = outputs[k].key_suffix
                                     /\ b.file_name = outputs[k].filename
            /\ \E b \in Buttons :
                  /\ b.package
                  /\ Len(b.entries) = Len(outputs)
                  /\ \A k \in 1..Len(outputs) :
                        /\ b.entries[k].name = outputs[k].filename
                        /\ OfferedData(outputs[k].key_suffix) # {}

(***************************************************************************)
(* The two builders called on the same question list: json_to_qti_zip and  *)
(* build_quiz_xml, once each, in either order.  ret.value holds what each  *)
(* returned or raised.                                                     *)
(***************************************************************************)
\* feedback texts: empty, blank (whitespace only), and a text
FeedbackTexts == {<<>>, <<" ">>, <<"O", "K">>}

\* the question without the keys ks
Without(q, ks) ==
    [keys     |-> q.keys \ ks,
     question |-> IF "question" \in ks THEN <<>> ELSE q.question,
     options  |-> IF "options" \in ks THEN <<>> ELSE q.options,
     success  |-> IF "success" \in ks THEN <<>> ELSE q.success,
     error    |-> IF "error" \in ks THEN <<>> ELSE q.error]

\* the keys a question of the upload may lack
MissingKeys ==
    {{}, {"question"}, {"options"}, {"success"}, {"error"}, {"success", "error"}}

BuilderQuestions ==
    {Without(Question(f, su, er), ks) :
        f \in UNION {FlagSeqs(n) : n \in 0..MaxOptions},
        su \in FeedbackTexts, er \in FeedbackTexts, ks \in MissingKeys}

\* lists of one question, and lists whose second question lacks keys
BuilderLists ==
    {<<q>> : q \in BuilderQuestions}
    \cup {<<Question(<<TRUE, FALSE>>, <<"O", "K">>, <<>>),
            Without(Question(<<FALSE, TRUE>>, <<>>, <<"O", "K">>), ks)>> : ks \in MissingKeys}

BuildersInit ==
    /\ pc = "call"
    /\ arg \in {[questions |-> d, qti |-> DefaultQtiConfig,
                 moodle |-> [DefaultMoodleConfig EXCEPT !.auto_single = au]] :
                    d \in BuilderLists, au \in BOOLEAN}
    /\ ret = [done |-> FALSE, raised |-> FALSE, error |-> NoError,
              value |-> [qti |-> NoReturn, moodle |-> NoReturn]]
    /\ uuid_count = 0
    /\ attempt = NoAttempt
    /\ namespace_map = ImportedNamespaceMap
    /\ globals \in {NoGlobals, [moodle_strip_prefixes |-> "True", moodle_convert_math |-> "True"]}
    /\ page = NoPage
    /\ files = {}

\* json_to_qti_zip is called on the list
ConvertToQti ==
    /\ ~ret.value.qti.done
    /\ ret' = [ret EXCEPT
                 !.value.qti = json_to_qti_zip(arg.questions, arg.qti.strip_prefixes,
                                               arg.qti.convert_math, arg.qti.shuffle,
                                               arg.qti.item_prefix, uuid_count, namespace_map),
                 !.done = ret.value.moodle.done]
    /\ uuid_count' = uuid_after(arg.questions, uuid_count)
    /\ namespace_map' = namespace_map_after(arg.questions, namespace_map)
    /\ pc' = IF ret.value.moodle.done THEN "done" ELSE "call"
    /\ UNCHANGED <<arg, attempt, globals, page, files>>

\* build_quiz_xml is called on the list
ConvertToMoodle ==
    /\ ~ret.value.moodle.done
    /\ ret' = [ret EXCEPT
                 !.value.moodle = build_quiz_xml(arg.questions, arg.moodle, globals),
                 !.done = ret.value.qti.done]
    /\ pc' = IF ret.value.qti.done THEN "done" ELSE "call"
    /\ UNCHANGED <<arg, uuid_count, attempt, namespace_map, globals, page, files>>

BuildersNext == ConvertToQti \/ ConvertToMoodle

SpecBuilders == BuildersInit /\ [][BuildersNext]_vars

(***************************************************************************)
(* Properties of the two builders on one list (checked under SpecBuilders).*)
(***************************************************************************)
\* the question has a prompt, at least one option, and no option flagged true
NoneCorrect(q) ==
    /\ {"question", "options"} \subseteq q.keys
    /\ Len(q.options) >= 1
    /\ CorrectSet(q.options) = {}

\* what json_to_qti_zip and build_quiz_xml returned or raised
QtiResult == ret.value.qti

MoodleResult == ret.value.moodle

\* C21: a question with a prompt, at least one option and no option flagged
\* true makes neither builder raise; its QTI item has an empty
\* correctResponse and every response to it (any set of its choices, the
\* empty one included) ends with SCORE = 0; none of its Moodle answers has a
\* positive fraction.
C21_NoneCorrectAlwaysWrong ==
    \A i \in 1..Len(arg.questions) :
        NoneCorrect(arg.questions[i]) =>
            /\ QtiResult.done =>
                  /\ QtiResult.error.question # i
                  /\ ~QtiResult.raised =>
                        LET item == QtiResult.value[i].xml
                        IN  /\ item.responseDeclaration.correctResponse = <<>>
                            /\ Len(item.itemBody.choiceInteraction.simpleChoice)
                                  = Len(arg.questions[i].options)
                            /\ \A response \in SUBSET ChoiceIds(item) :
                                  ProcessResponse(item, response).SCORE = 0
            /\ MoodleResult.done =>
                  /\ MoodleResult.error.question # i
                  /\ ~MoodleResult.raised =>
                        LET node == MoodleResult.value[i]
                        IN  /\ Len(node.answer) = Len(arg.questions[i].options)
                            /\ \A k \in 1..Len(node.answer) :
                                  FractionMicro(node.answer[k].fraction) <= 0

\* both builders returned for the question false, false: its item has two
\* choices and no correct response, and its Moodle answers carry -50.000000
C21_Witness ==
    /\ pc = "done"
    /\ Len(arg.questions) = 1
    /\ NoneCorrect(arg.questions[1])
    /\ Len(arg.questions[1].options) = 2
    /\ ~QtiResult.raised
    /\ ~MoodleResult.raised
    /\ QtiResult.value[1].xml.responseDeclaration.correctResponse = <<>>
    /\ Cardinality(ChoiceIds(QtiResult.value[1].xml)) = 2
    /\ MoodleResult.value[1].answer[1].fraction
          = <<"-", "5", "0", ".", "0", "0", "0", "0", "0", "0">>

\* the question lacks the prompt field or the options field
LacksRequired(q) == "question" \notin q.keys \/ "options" \notin q.keys

\* C22: each builder raises on the first question of the list that lacks the
\* prompt or the options, and returns no document.
C22_MissingFieldsRaise ==
    \A i \in 1..Len(arg.questions) :
        (/\ LacksRequired(arg.questions[i])
         /\ \A j \in 1..(i - 1) : ~LacksRequired(arg.questions[j])
                                  /\ Len(arg.questions[j].options) > 0) =>
            /\ QtiResult.done =>
                  (QtiResult.raised /\ QtiResult.error.question = i /\ QtiResult.value = <<>>)
            /\ MoodleResult.done =>
                  (MoodleResult.raised /\ MoodleResult.error.question = i
                   /\ MoodleResult.value = <<>>)

\* the text is empty or whitespace only
IsBlank(t) == strip(t) = <<>>

\* C25: in every Moodle question node correctfeedback carries the success
\* text and partiallycorrectfeedback and incorrectfeedback the error text,
\* each replaced by its default string when the text is missing, empty or
\* blank; none of the three blocks is empty.
C25_FeedbackNeverEmpty ==
    (MoodleResult.done /\ ~MoodleResult.raised) =>
        \A i \in 1..Len(arg.questions) :
            LET q    == arg.questions[i]
                node == MoodleResult.value[i]
                ok   == IF "success" \in q.keys /\ ~IsBlank(q.success)
                        THEN q.success ELSE DefaultCorrectFeedback
                err  == IF "error" \in q.keys /\ ~IsBlank(q.error)
                        THEN q.error ELSE DefaultWrongFeedback
            IN  /\ node.correctfeedback = wrap_p(ok)
                /\ node.partiallycorrectfeedback = wrap_p(err)
                /\ node.incorrectfeedback = wrap_p(err)
                /\ node.correctfeedback # <<>>
                /\ node.partiallycorrectfeedback # <<>>
                /\ node.incorrectfeedback # <<>>

\* C29: for every question both builders accept, with auto-detect on or off,
\* the identifier of the option at position k is in the QTI correctResponse
\* list if and only if the Moodle answer at position k has a fraction
\* greater than zero.
C29_FormatsAgreeOnCorrectness ==
    (QtiResult.done /\ ~QtiResult.raised /\ MoodleResult.done /\ ~MoodleResult.raised) =>
        \A i \in 1..Len(arg.questions) :
            LET item == QtiResult.value[i].xml
                node == MoodleResult.value[i]
                sc   == item.itemBody.choiceInteraction.simpleChoice
            IN  /\ Len(sc) = Len(node.answer)
                /\ \A k \in 1..Len(sc) :
                      (sc[k].identifier \in SeqRange(item.responseDeclaration.correctResponse))
                         <=> (FractionMicro(node.answer[k].fraction) > 0)

\* both builders returned for the question true, false, true with
\* auto-detect on: ID_1 and ID_3 are correct, and the answers carry
\* 50.000000, -100.000000 and 50.000000
C29_Witness ==
    /\ pc = "done"
    /\ ~QtiResult.raised
    /\ ~MoodleResult.raised
    /\ arg.moodle.auto_single
    /\ Len(arg.questions) = 1
    /\ Len(arg.questions[1].options) = 3
    /\ CorrectSet(arg.questions[1].options) = {1, 3}
    /\ QtiResult.value[1].xml.responseDeclaration.correctResponse = <<IdK(1), IdK(3)>>
    /\ FractionMicro(MoodleResult.value[1].answer[1].fraction) = 50 * Millionths
    /\ FractionMicro(MoodleResult.value[1].answer[2].fraction) = -100 * Millionths
    /\ FractionMicro(MoodleResult.value[1].answer[3].fraction) = 50 * Millionths

(***************************************************************************)
(* The grading mode of a Moodle question (checked under SpecMoodle).       *)
(***************************************************************************)
\* C24: <single> is true iff auto-detect is enabled and exactly one option is
\* flagged true; with auto-detect disabled a question with exactly one
\* correct option is graded in multi mode: 100.000000 on the correct answer
\* and -100/W, with six decimals, on each of the W wrong ones.
C24_AutoDetectRule ==
    QuizBuilt =>
        \A i \in 1..Len(arg.data) :
            LET o    == arg.data[i].options
                node == ret.value[i]
                C    == Cardinality(CorrectSet(o))
                W    == Cardinality(WrongSet(o))
            IN  /\ node.single \in {"true", "false"}
                /\ (node.single = "true") <=> (arg.cfg.auto_single /\ C = 1)
                /\ (~arg.cfg.auto_single /\ C = 1) =>
                      \A k \in 1..Len(o) :
                          IF k \in CorrectSet(o)
                          THEN node.answer[k].fraction = Lit100
                          ELSE /\ IsSixDecimal(node.answer[k].fraction)
                               /\ IsNearestShare(-FractionMicro(node.answer[k].fraction), W)

\* with auto-detect disabled the question false, true, false is built in
\* multi mode with -50.000000, 100.000000, -50.000000
C24_Witness ==
    /\ QuizBuilt
    /\ ~arg.cfg.auto_single
    /\ Len(arg.data) = 1
    /\ Len(arg.data[1].options) = 3
    /\ CorrectSet(arg.data[1].options) = {2}
    /\ ret.value[1].single = "false"
    /\ ret.value[1].answer[1].fraction = <<"-", "5", "0", ".", "0", "0", "0", "0", "0", "0">>
    /\ ret.value[1].answer[2].fraction = Lit100
    /\ ret.value[1].answer[3].fraction = <<"-", "5", "0", ".", "0", "0", "0", "0", "0", "0">>

(***************************************************************************)
(* wrap_p as a call: a text is wrapped, and the result may be wrapped      *)
(* again.                                                                  *)
(***************************************************************************)
WrapAlphabet == {" ", "\n", "<", "a"}

WrapTexts == UNION {[1..n -> WrapAlphabet] : n \in 0..MaxTextLen}

WrapInit ==
    /\ pc = "call"
    /\ arg \in {[s |-> t] : t \in WrapTexts}
    /\ ret = NoReturn
    /\ uuid_count = 0
    /\ attempt = NoAttempt
    /\ namespace_map = ImportedNamespaceMap
    /\ globals = NoGlobals
    /\ page = NoPage
    /\ files = {}

\* one call of wrap_p, on the input or on the previous result
WrapP ==
    /\ Len(ret.value) < MaxApply
    /\ LET cur == IF Len(ret.value) = 0 THEN arg.s ELSE ret.value[Len(ret.value)]
       IN  ret' = [done |-> TRUE, raised |-> FALSE, error |-> NoError,
                   value |-> Append(ret.value, wrap_p(cur))]
    /\ pc' = "done"
    /\ UNCHANGED <<arg, uuid_count, attempt, namespace_map, globals, page, files>>

WrapNext == WrapP

SpecWrap == WrapInit /\ [][WrapNext]_vars

(***************************************************************************)
(* Properties of wrap_p (checked under SpecWrap).                          *)
(***************************************************************************)
\* u is t without its leading and trailing whitespace
IsTrimOf(u, t) ==
    \E a \in 0..Len(t), b \in 0..Len(t) :
        /\ a + Len(u) + b = Len(t)
        /\ \A i \in 1..a : IsSpace(t[i])
        /\ \A i \in (a + Len(u) + 1)..Len(t) : IsSpace(t[i])
        /\ u = SubSeq(t, a + 1, a + Len(u))
        /\ u # <<>> => (~IsSpace(u[1]) /\ ~IsSpace(u[Len(u)]))

OpenP == <<"<", "p", ">">>

CloseP == <<"<", "/", "p", ">">>

\* C27: wrap_p returns the empty string for an empty or whitespace-only
\* text, the trimmed text itself when that starts with "<", and otherwise
\* the trimmed text between one <p> and one </p>; wrapping a result again
\* returns it unchanged, and <p></p> is never returned.
C27_WrapP ==
    \A i \in 1..Len(ret.value) :
        LET t   == Applied(i)
            out == ret.value[i]
        IN  /\ (\A j \in 1..Len(t) : IsSpace(t[j])) => out = <<>>
            /\ (\E j \in 1..Len(t) : ~IsSpace(t[j])) =>
                  IF t[CHOOSE j \in 1..Len(t) :
                         ~IsSpace(t[j]) /\ \A h \in 1..(j - 1) : IsSpace(t[h])] = "<"
                  THEN IsTrimOf(out, t)
                  ELSE /\ Len(out) > 7
                       /\ SubSeq(out, 1, 3) = OpenP
                       /\ SubSeq(out, Len(out) - 3, Len(out)) = CloseP
                       /\ IsTrimOf(SubSeq(out, 4, Len(out) - 4), t)
            /\ out # OpenP \o CloseP
            /\ i >= 2 => out = ret.value[i - 1]

\* " a<" was wrapped to <p>a<</p>, and wrapping that again returned it
\* unchanged
C27_Witness ==
    /\ Len(ret.value) = 2
    /\ arg.s = <<" ", "a", "<">>
    /\ ret.value[1] = OpenP \o <<"a", "<">> \o CloseP
    /\ ret.value[2] = ret.value[1]

(***************************************************************************)
(* What an export run does with malformed questions (checked under         *)
(* SpecExport).                                                            *)
(***************************************************************************)
\* the question lacks a prompt, or its options are missing or empty
Malformed(q) ==
    \/ "question" \notin q.keys
    \/ "options" \notin q.keys
    \/ Len(q.options) = 0

\* the Markdown text has the heading line of question i: "**i. ..."
HasHeading(body, i) ==
    LET start == <<"*", "*">> \o Digits(i) \o <<".", " ">>
    IN  \E l \in 1..Len(body) :
            Len(body[l]) >= Len(start) /\ SubSeq(body[l], 1, Len(start)) = start

\* C23: for every malformed question of the list, at whatever position, each
\* requested path either shows an error message naming its format or has the
\* question in every output it offers: an item in the QTI package, a
\* question node in the Moodle document, a heading in each Word document.
C23_NeverDroppedSilently ==
    RunEnded =>
        \A i \in 1..Len(arg.questions) :
            Malformed(arg.questions[i]) =>
                /\ arg.selected.qti_selected =>
                      \/ HasError("QTI")
                      \/ \A zip \in OfferedData("qti") : Len(zip) > i /\ zip[i].kind = "item"
                /\ arg.selected.moodle_selected =>
                      \/ HasError("Moodle")
                      \/ \A quiz \in OfferedData("moodle") :
                            Len(quiz) >= i /\ quiz[i].type = "multichoice"
                /\ arg.selected.word_selected =>
                      \/ HasError("Word")
                      \/ \A docx \in OfferedData("word_clean") \cup OfferedData("word_full") :
                            HasHeading(docx.body, i)

\* the page shows a message of the stage of the format
HasMessage(format) ==
    \E n \in 1..Len(page.messages) : page.messages[n].format = format

\* C26: at every point of an export run, a format that is not selected has
\* left no trace: its buffer is None, its stage has written no message, its
\* builder has taken no token, registered no namespace and left no file,
\* and it is offered neither as a download of its own nor as an entry of the
\* package; the same holds for a Word version that is not selected.
C26_OnlyRequestedBuilders ==
    /\ ~arg.selected.qti_selected =>
          /\ ret.value.qti_zip_bytes.none
          /\ ~HasMessage("QTI")
          /\ uuid_count = 0
          /\ namespace_map = ImportedNamespaceMap
          /\ ~Offered("qti")
    /\ ~arg.selected.moodle_selected =>
          /\ ret.value.moodle_xml_bytes.none
          /\ ~HasMessage("Moodle")
          /\ ~Offered("moodle")
    /\ ~arg.selected.word_selected =>
          /\ ~HasMessage("Word")
          /\ ~HasMessage("Pandoc")
          /\ files = {}
    /\ (~arg.selected.word_selected \/ ~arg.selected.word_clean_selected) =>
          (ret.value.word_clean_bytes.none /\ ~Offered("word_clean"))
    /\ (~arg.selected.word_selected \/ ~arg.selected.word_full_selected) =>
          (ret.value.word_full_bytes.none /\ ~Offered("word_full"))
    /\ \A b \in Buttons :
          /\ ~b.package =>
                \E k \in {"qti", "moodle", "word_clean", "word_full"} :
                    b.key = k /\ b.file_name = FileName(k)
          /\ b.package =>
                \A e \in 1..Len(b.entries) :
                    \E k \in {"qti", "moodle", "word_clean", "word_full"} :
                        b.entries[e].name = FileName(k)

\* a run with only Moodle selected ended with the Moodle document offered,
\* while the QTI stage failed nothing and built nothing
C26_Witness ==
    /\ pc = "done"
    /\ arg.selected.moodle_selected
    /\ ~arg.selected.qti_selected
    /\ ~arg.selected.word_selected
    /\ Len(arg.questions) = 2
    /\ OfferedIndividually("moodle")
    /\ ret.value.qti_zip_bytes.none
    /\ uuid_count = 0

(***************************************************************************)
(* Failures of pandoc in an export run (checked under SpecExport).         *)
(***************************************************************************)
\* the Word versions the run was asked for
WantedWord ==
    {k \in {"word_clean", "word_full"} :
        /\ arg.selected.word_selected
        /\ (k = "word_clean" => arg.selected.word_clean_selected)
        /\ (k = "word_full" => arg.selected.word_full_selected)}

WordBuffer(k) == IF k = "word_clean" THEN ret.value.word_clean_bytes
                 ELSE ret.value.word_full_bytes

\* the page shows the message at some position
Shows(kind, format, text) ==
    \E n \in 1..Len(page.messages) : page.messages[n] = Message(kind, format, text)

\* C28: a Word version that was asked for and is not offered is reported by
\* an error message of the Word stage; that message carries the diagnostic:
\* after a non-zero exit the page shows pandoc's exit code and stderr right
\* before it, and for a missing tool it carries the error of the operating
\* system naming pandoc.  The run goes on to its end: the failing version has
\* no buffer, the QTI and Moodle buffers built before are offered, and so is
\* a Word version whose conversion succeeded before the failing one.
C28_PandocFailureReported ==
    RunEnded =>
        /\ pc = "done"
        /\ \A k \in WantedWord : Offered(k) \/ HasError("Word")
        /\ \A n \in 1..Len(page.messages) :
              (page.messages[n].kind = "error" /\ page.messages[n].format = "Word") =>
                  /\ \/ /\ page.messages[n].text = WordFailure("RuntimeError")
                        /\ n > 1
                        /\ page.messages[n - 1]
                              = Message("error", "Pandoc", "Pandoc failed (exit code, stderr)")
                     \/ /\ page.messages[n].text = WordFailure("FileNotFoundError")
                        /\ ~HasMessage("Pandoc")
                  /\ \E k \in WantedWord : WordBuffer(k).none /\ ~Offered(k)
        /\ (arg.selected.qti_selected /\ QtiBuildable) => Offered("qti")
        /\ (arg.selected.moodle_selected /\ MoodleBuildable) => Offered("moodle")
        /\ Shows("success", "Word", "Word (questions only) generated.") =>
              /\ Offered("word_clean")
              /\ OfferedData("word_clean") = {pandoc(questions_to_markdown(arg.questions, TRUE))}
        /\ Shows("success", "Word", "Word (with answers + feedback) generated.") =>
              Offered("word_full")

\* pandoc exited with an error on the second Word version: the package
\* offered holds the QTI package, the Moodle document and the first Word
\* version, and the page shows pandoc's stderr and the Word error
C28_Witness ==
    /\ pc = "done"
    /\ Shows("error", "Pandoc", "Pandoc failed (exit code, stderr)")
    /\ Shows("error", "Word", WordFailure("RuntimeError"))
    /\ OfferedInPackage("qti")
    /\ OfferedInPackage("moodle")
    /\ OfferedInPackage("word_clean")
    /\ ~Offered("word_full")
    /\ arg.selected.word_full_selected

\* C30: whenever markdown_to_docx has returned or raised, the temporary .md
\* and .docx files it created are gone: an export run leaves no temporary
\* file.
C30_NoTemporaryFiles == files = {}

=============================================================================
